---------------------------- MODULE Spec2Model ----------------------------
(***************************************************************************)
(* A model of the retrieval-sufficiency and evidence-assembly pipeline of  *)
(* the IONOS simple chatbot backend (src/backend/agents).                  *)
(*                                                                         *)
(* Text is modelled as a sequence of characters, each character a          *)
(* one-element string, so that len(), strip(), lower(), the `in` substring *)
(* test and the regular expressions of the code are computed character by  *)
(* character.  The four typographic quotes the planner rewrites are the    *)
(* characters "LSQUO", "RSQUO", "LDQUO" and "RDQUO".                       *)
(*                                                                         *)
(* A Python dict whose keys may be absent is a set of <<key, value>>       *)
(* pairs or a record with an explicit presence field.                      *)
(***************************************************************************)
EXTENDS Integers, Sequences, FiniteSets, TLC

VARIABLES
    \* --- ResponseSufficiencyNode run on its own -------------------------
    gateState,      \* the state dict handed to execute(): messages, local_passages
    gateMinHits,    \* Config.MIN_LOCAL_HITS
    gateOut,        \* the dict execute() returned
    gatePc,         \* "ready" | "done"
    \* --- one ReActAgent handling turns -----------------------------------
    pc,             \* "idle", the graph node to run next, "END", "raised", "returned"
    flow,           \* "legacy" (self.app) | "extended" (self.extended_app)
    state,          \* the AgentState of the running turn
    cfgMinHits,     \* Config.MIN_LOCAL_HITS of the process
    answer,         \* what process_message_* returned to its caller
    trace,          \* the nodes whose execute() has been entered this turn, in order
    failed,         \* the nodes whose external call raised this turn
    atGate,         \* context and citations as the gate saw them
    genInput,       \* context, citations and question response_generation read
    earlier,        \* while a turn runs: what the turn before it left in its state
    \* --- SearchPlannerNode run on its own -------------------------------
    planMessages,   \* state["messages"] handed to execute()
    planOut,        \* the dict execute() returned
    planPc,         \* "ready" | "done"
    \* --- one execution of WebSearchNode ---------------------------------
    wsState,        \* the state dict: queries, search_filters, budgets
    wsProvider,     \* Config.SEARCH_PROVIDER
    wsPc,           \* "ready", "tavily", "duckduckgo", "searched", "done"
    wsPass,         \* which client.search call is running: 1 or 2
    wsFilters,      \* the search_filters argument of the running call
    wsIdx,          \* position in queries[:max_queries] of the running loop
    wsResults,      \* results of the running call
    wsCalls,        \* every request made to a provider, in order
    wsPhases,       \* the provider loops entered, in order
    wsPasses,       \* the client.search calls that returned, in order
    wsOut,          \* web_results as execute() returned them
    \* --- one call of WebReader.fetch_and_extract ---------------------------
    wrPages,        \* the URL list, each URL with what fetching it gives
    wrBudget,       \* the budget dict
    wrPc,           \* "ready", "loop", "done"
    wrIdx,          \* position in urls[:max_pages] of the running loop
    wrFetched,      \* the positions of the URLs requested, in order
    wrResults,      \* results, the passages appended so far
    wrStarts,       \* for each passage of results: position of its URL, offset of its window
    \* --- one execution of EvidenceRankerNode -------------------------------
    rrLocal,        \* state["local_passages"]
    rrWeb,          \* state["web_passages"]
    rrMessages,     \* state["messages"]
    rrMaxWebPassages,\* Config.MAX_WEB_PASSAGES
    rrPc,           \* "ready", "ranked", "reranked"
    rrOut,          \* ranked_passages as execute() returned them
    rrFeed,         \* the state key under which a second execution got rrOut
    rrOut2,         \* ranked_passages of the second execution
    \* --- one execution of ContextMergeNode ---------------------------------
    mgRanked,       \* state["ranked_passages"]
    mgContextIn,    \* state["context"]
    mgMaxContext,   \* the context budget of the configuration
    mgPc,           \* "ready", "merged"
    mgContext,      \* context as execute() returned it
    mgCitations,    \* citations as execute() returned them
    \* --- the chat endpoint of main.py --------------------------------------
    chat_log,       \* the module-level chat_log
    chOwner,        \* for each message of chat_log: the request that appended it, 0 for the initial ones
    chIndexed,      \* chunk_embeddings is not empty
    chPc,           \* of each POST / request: "new", "awaiting", "done", "failed"
    chPrompt,       \* user_input.prompt of each request
    chHistory,      \* history as each request built it for its prompt
    chClears,       \* how many DELETE / requests were served
    \* --- one call of studio_call -------------------------------------------
    stMessages,     \* the messages argument
    stPc,           \* "start", "polling", "returned", "raised"
    stPayload,      \* the payload posted to create the job
    stPolls,        \* how many status requests were sent
    stReport,       \* the JSON of the last status request
    stIgnored,      \* a poll reported FINISHED, FAILED or CANCELED and the loop went on
    stOutcome       \* what the call returned or raised

varsGate == <<gateState, gateMinHits, gateOut, gatePc>>
varsAgent == <<pc, flow, state, cfgMinHits, answer, trace, failed, atGate, genInput,
               earlier>>
varsPlanner == <<planMessages, planOut, planPc>>
varsSearch == <<wsState, wsProvider, wsPc, wsPass, wsFilters, wsIdx, wsResults,
                wsCalls, wsPhases, wsPasses, wsOut>>
varsReader == <<wrPages, wrBudget, wrPc, wrIdx, wrFetched, wrResults, wrStarts>>
varsRanker == <<rrLocal, rrWeb, rrMessages, rrMaxWebPassages, rrPc, rrOut, rrFeed, rrOut2>>
varsMerger == <<mgRanked, mgContextIn, mgMaxContext, mgPc, mgContext, mgCitations>>
varsChat == <<chat_log, chOwner, chIndexed, chPc, chPrompt, chHistory, chClears>>
varsStudio == <<stMessages, stPc, stPayload, stPolls, stReport, stIgnored, stOutcome>>

vars == <<gateState, gateMinHits, gateOut, gatePc,
          pc, flow, state, cfgMinHits, answer, trace, failed, atGate, genInput,
          earlier,
          planMessages, planOut, planPc,
          wsState, wsProvider, wsPc, wsPass, wsFilters, wsIdx, wsResults,
          wsCalls, wsPhases, wsPasses, wsOut,
          wrPages, wrBudget, wrPc, wrIdx, wrFetched, wrResults, wrStarts,
          rrLocal, rrWeb, rrMessages, rrMaxWebPassages, rrPc, rrOut, rrFeed, rrOut2,
          mgRanked, mgContextIn, mgMaxContext, mgPc, mgContext, mgCitations,
          chat_log, chOwner, chIndexed, chPc, chPrompt, chHistory, chClears,
          stMessages, stPc, stPayload, stPolls, stReport, stIgnored, stOutcome>>

\* what an action of one component leaves alone
othersThanGate == <<varsAgent, varsPlanner, varsSearch, varsReader, varsRanker, varsMerger, varsChat, varsStudio>>
othersThanAgent == <<varsGate, varsPlanner, varsSearch, varsReader, varsRanker, varsMerger, varsChat, varsStudio>>
othersThanPlanner == <<varsGate, varsAgent, varsSearch, varsReader, varsRanker, varsMerger, varsChat, varsStudio>>
othersThanSearch == <<varsGate, varsAgent, varsPlanner, varsReader, varsRanker, varsMerger, varsChat, varsStudio>>
othersThanReader == <<varsGate, varsAgent, varsPlanner, varsSearch, varsRanker, varsMerger, varsChat, varsStudio>>
othersThanRanker == <<varsGate, varsAgent, varsPlanner, varsSearch, varsReader, varsMerger, varsChat, varsStudio>>
othersThanMerger == <<varsGate, varsAgent, varsPlanner, varsSearch, varsReader, varsRanker, varsChat, varsStudio>>
othersThanChat == <<varsGate, varsAgent, varsPlanner, varsSearch, varsReader, varsRanker, varsMerger, varsStudio>>
othersThanStudio == <<varsGate, varsAgent, varsPlanner, varsSearch, varsReader, varsRanker, varsMerger, varsChat>>

---------------------------------------------------------------------------
(* Bounds of the model *)

\* longest local passage list handed to the gate on its own
MaxPassages == 3
\* largest MIN_LOCAL_HITS tried (the smallest is -1)
MaxMinHits == 3

---------------------------------------------------------------------------
(* Characters and strings *)

UpperChars == <<"A","B","C","D","E","F","G","H","I","J","K","L","M",
                "N","O","P","Q","R","S","T","U","V","W","X","Y","Z">>
LowerChars == <<"a","b","c","d","e","f","g","h","i","j","k","l","m",
                "n","o","p","q","r","s","t","u","v","w","x","y","z">>
DigitChars == {"0","1","2","3","4","5","6","7","8","9"}

\* The characters of a text are those of code points 0 to 255, each a string
\* of one character; a character beyond them is a string that names it.
\* the characters of code points 0 to 255 for which str.isspace() is true:
\* tab, line feed, vertical tab, form feed, carriage return, the separators
\* 0x1c to 0x1f, space, next line (0x85) and no-break space (0xa0)
SpaceChars == {"\t", "\n", "", "\f", "\r", "", "", "", "", " ", "", " "}
\* the characters \w matches: letters, digits and the underscore
WordChars == {"0","1","2","3","4","5","6","7","8","9","A","B","C","D","E","F","G","H","I","J","K","L","M","N","O","P","Q","R","S","T","U","V","W","X","Y","Z","_","a","b","c","d","e","f","g","h","i","j","k","l","m","n","o","p","q","r","s","t","u","v","w","x","y","z","ª","²","³","µ","¹","º","¼","½","¾","À","Á","Â","Ã","Ä","Å","Æ","Ç","È","É","Ê","Ë","Ì","Í","Î","Ï","Ð","Ñ","Ò","Ó","Ô","Õ","Ö","Ø","Ù","Ú","Û","Ü","Ý","Þ","ß","à","á","â","ã","ä","å","æ","ç","è","é","ê","ë","ì","í","î","ï","ð","ñ","ò","ó","ô","õ","ö","ø","ù","ú","û","ü","ý","þ","ÿ"}
\* what str.lower() makes of each letter it changes
LowerOf ==
    "A" :> "a" @@ "B" :> "b" @@ "C" :> "c" @@ "D" :> "d" @@ "E" :> "e" @@ "F" :> "f" @@ "G" :> "g" @@ "H" :> "h" @@ "I" :> "i" @@ "J" :> "j" @@ "K" :> "k" @@ "L" :> "l" @@ "M" :> "m"
    @@ "N" :> "n" @@ "O" :> "o" @@ "P" :> "p" @@ "Q" :> "q" @@ "R" :> "r" @@ "S" :> "s" @@ "T" :> "t" @@ "U" :> "u" @@ "V" :> "v" @@ "W" :> "w" @@ "X" :> "x" @@ "Y" :> "y" @@ "Z" :> "z"
    @@ "À" :> "à" @@ "Á" :> "á" @@ "Â" :> "â" @@ "Ã" :> "ã" @@ "Ä" :> "ä" @@ "Å" :> "å" @@ "Æ" :> "æ" @@ "Ç" :> "ç" @@ "È" :> "è" @@ "É" :> "é" @@ "Ê" :> "ê" @@ "Ë" :> "ë" @@ "Ì" :> "ì" @@ "Í" :> "í" @@ "Î" :> "î" @@ "Ï" :> "ï"
    @@ "Ð" :> "ð" @@ "Ñ" :> "ñ" @@ "Ò" :> "ò" @@ "Ó" :> "ó" @@ "Ô" :> "ô" @@ "Õ" :> "õ" @@ "Ö" :> "ö" @@ "Ø" :> "ø" @@ "Ù" :> "ù" @@ "Ú" :> "ú" @@ "Û" :> "û" @@ "Ü" :> "ü" @@ "Ý" :> "ý" @@ "Þ" :> "þ"

\* str.isspace() on one character, which is also \s of the re module
IsSpace(c) == c \in SpaceChars

\* \w of the re module on one character
IsWordChar(c) == c \in WordChars

\* str.lower() on one character
LowerChar(c) == IF c \in DOMAIN LowerOf THEN LowerOf[c] ELSE c

\* str.lower()
Lower(s) == [i \in 1..Len(s) |-> LowerChar(s[i])]

\* s[a-1:b] of Python, as a sequence (empty when a > b)
Slice(s, a, b) == IF a > b THEN <<>> ELSE SubSeq(s, a, b)

\* number of leading whitespace characters of s
RECURSIVE LeadingSpaces(_)
LeadingSpaces(s) ==
    IF s = <<>> \/ ~IsSpace(Head(s)) THEN 0 ELSE 1 + LeadingSpaces(Tail(s))

\* number of trailing whitespace characters of s
RECURSIVE TrailingSpaces(_)
TrailingSpaces(s) ==
    IF s = <<>> \/ ~IsSpace(s[Len(s)]) THEN 0
    ELSE 1 + TrailingSpaces(SubSeq(s, 1, Len(s) - 1))

\* str.strip()
Strip(s) ==
    LET a == LeadingSpaces(s)
    IN  IF a = Len(s) THEN <<>> ELSE Slice(s, a + 1, Len(s) - TrailingSpaces(s))

\* needle occurs in hay starting at position i
MatchAt(hay, needle, i) ==
    /\ i >= 1
    /\ i + Len(needle) - 1 <= Len(hay)
    /\ \A j \in 1..Len(needle) : hay[i + j - 1] = needle[j]

\* `needle in hay` of Python
Contains(hay, needle) == \E i \in 1..(Len(hay) + 1) : MatchAt(hay, needle, i)

\* sep.join(parts)
RECURSIVE Join(_, _)
Join(parts, sep) ==
    IF parts = <<>> THEN <<>>
    ELSE IF Len(parts) = 1 THEN parts[1]
    ELSE parts[1] \o sep \o Join(Tail(parts), sep)

\* a string of n copies of the character c
Repeat(c, n) == [i \in 1..n |-> c]

\* items[:n] of Python for n >= 0
Take(items, n) == Slice(items, 1, IF n < Len(items) THEN n ELSE Len(items))

\* all sequences over S of length at most n
SeqsUpTo(S, n) == UNION {[1..k -> S] : k \in 0..n}

---------------------------------------------------------------------------
(* Messages *)

\* a message: its class, whether its content is a str, and the content
Msg(type, content) == [type |-> type, content |-> content, isStr |-> TRUE]
HumanMessage(content) == Msg("human", content)
AIMessage(content) == Msg("ai", content)
\* a message whose content is not a str (a list of content blocks)
NonStrMessage == [type |-> "human", content |-> <<>>, isStr |-> FALSE]

\* isinstance(content, str) and content.strip()
HasText(m) == m.isStr /\ Strip(m.content) # <<>>

\* the loop `for msg in reversed(messages)` that takes the stripped content
\* of the latest message with non-blank str content ("" when there is none)
RECURSIVE LatestText(_)
LatestText(messages) ==
    IF messages = <<>> THEN <<>>
    ELSE IF HasText(messages[Len(messages)])
         THEN Strip(messages[Len(messages)].content)
         ELSE LatestText(SubSeq(messages, 1, Len(messages) - 1))

---------------------------------------------------------------------------
(* ResponseSufficiencyNode *)

\* the passage length from which a local passage counts as a hit
MinPassageChars == 200

web_triggers ==
    << <<"a", "r", "t", "i", "c", "l", "e">>,
       <<"r", "e", "v", "i", "e", "w">>,
       <<"n", "e", "w", "s">>,
       <<"l", "a", "t", "e", "s", "t">>,
       <<"t", "o", "d", "a", "y">>,
       <<"u", "p", "d", "a", "t", "e">>,
       <<"p", "r", "i", "c", "e">>,
       <<"l", "a", "w">> >>

\* user_text: the latest non-blank message content, stripped and lower-cased
SufficiencyUserText(messages) == Lower(LatestText(messages))

\* trigger_hit = any(k in user_text for k in web_triggers)
TriggerHit(user_text) ==
    \E i \in 1..Len(web_triggers) : Contains(user_text, web_triggers[i])

\* isinstance(p.get("text"), str) and len(p.get("text")) >= 200
IsNonEmptyPassage(p) == p.textIsStr /\ Len(p.text) >= MinPassageChars

\* len(non_empty)
LocalHits(local_passages) == Len(SelectSeq(local_passages, IsNonEmptyPassage))

\* HasCoverage without the max(1, .) clamp of the threshold
MutHasCoverage(local_passages, min_hits) == LocalHits(local_passages) >= min_hits

\* has_coverage = len(non_empty) >= max(1, int(min_hits))
HasCoverage(local_passages, min_hits) ==
    LocalHits(local_passages) >= (IF min_hits > 1 THEN min_hits ELSE 1)

\* ResponseSufficiencyNode.execute: the dict it returns
SufficiencyExecute(messages, local_passages, min_hits) ==
    LET trigger_hit  == TriggerHit(SufficiencyUserText(messages))
        has_coverage == HasCoverage(local_passages, min_hits)
    IN  IF trigger_hit /\ ~has_coverage
        THEN [decision |-> "insufficient",
              deficits |-> {<<"reason", "trigger_and_low_coverage">>}]
        ELSE IF has_coverage /\ ~trigger_hit
        THEN [decision |-> "sufficient", deficits |-> {}]
        ELSE [decision |-> "insufficient",
              deficits |-> {<<"reason", "borderline">>}]

---------------------------------------------------------------------------
(* The gate run on its own: every input is drawn in GateInit *)

Passage(text) ==
    [textIsStr |-> TRUE, text |-> text, source |-> "local", url |-> "None"]
\* a passage whose "text" is missing or not a str
NonStrPassage ==
    [textIsStr |-> FALSE, text |-> <<>>, source |-> "local", url |-> "None"]

GatePassageKinds ==
    { NonStrPassage,
      Passage(Repeat("x", MinPassageChars - 1)),
      Passage(Repeat("x", MinPassageChars)) }

GateTexts ==
    { <<>>,
      <<" ", " ">>,
      <<"h", "i">>,
      <<"L", "a", "t", "e", "s", "t", " ", "N", "E", "W", "S">>,
      <<"o", "u", "t", "l", "a", "w", "s">>,
      <<" ", "p", "r", "i", "c", "e", "\n">>,
      <<"n", "e", "w">> }

GateMessageLists ==
    {<<>>, <<NonStrMessage>>}
    \cup {<<HumanMessage(t)>> : t \in GateTexts}
    \cup {<<HumanMessage(t), HumanMessage(<<" ">>)>> : t \in GateTexts}
    \cup {<<HumanMessage(t), NonStrMessage>> : t \in GateTexts}
    \cup {<<HumanMessage(t), AIMessage(<<"o", "k">>)>> : t \in GateTexts}

MinHitsValues == (0 - 1)..MaxMinHits

NoGateOut == [decision |-> "None", deficits |-> {}]

GateInit ==
    /\ gateState \in [messages : GateMessageLists,
                      local_passages : SeqsUpTo(GatePassageKinds, MaxPassages)]
    /\ gateMinHits \in MinHitsValues
    /\ gateOut = NoGateOut
    /\ gatePc = "ready"

\* one call of ResponseSufficiencyNode.execute(state)
GateExecute ==
    /\ gatePc = "ready"
    /\ gateOut' = SufficiencyExecute(gateState.messages,
                                     gateState.local_passages, gateMinHits)
    /\ gatePc' = "done"
    /\ UNCHANGED <<gateState, gateMinHits>>
    /\ UNCHANGED othersThanGate

---------------------------------------------------------------------------
(* The ReActAgent: AgentState, the nodes of its two graphs, and the graphs *)

\* longest rag_chunks list handed to a turn
MaxChunks == 2
\* most documents the Tavily retriever returns in the model
MaxDocs == 2

\* Config.MIN_LOCAL_HITS when the environment does not set it
DefaultMinLocalHits == 3
\* rag_chunks[:5] in ContextPreparationNode
ContextChunkLimit == 5
\* docs[:8] in WebRetrieveSimpleNode
SnippetLimit == 8

\* an Optional[str]: None, or a str
NoneStr == [text |-> <<>>, isNone |-> TRUE]
Str(text) == [text |-> text, isNone |-> FALSE]
\* truthiness of an Optional[str]
Truthy(o) == ~o.isNone /\ o.text # <<>>

\* the state before a turn has built one
NoState ==
    [messages |-> <<>>, local_passages |-> <<>>, decision |-> "None",
     deficits |-> {}, keys |-> {}, current_url |-> NoneStr, rag_chunks |-> <<>>,
     reasoning |-> "", next_action |-> "None", context |-> <<>>,
     draft_answer |-> "", citations |-> <<>>, final_answer |-> <<>>]

\* AgentState(messages=[HumanMessage(content=message)], current_url=...,
\* rag_chunks=..., reasoning="", next_action=None, context="") of
\* process_message_with_rag
LegacyInitialState(message, rag_chunks, current_url) ==
    [NoState EXCEPT
        !.keys = {"messages", "current_url", "rag_chunks", "reasoning",
                  "next_action", "context"},
        !.messages = <<HumanMessage(message)>>,
        !.current_url = current_url,
        !.rag_chunks = rag_chunks]

\* the local_passages process_message_extended_with_rag builds from rag_chunks
LocalPassagesOf(rag_chunks, current_url) ==
    [i \in 1..Len(rag_chunks) |->
        [textIsStr |-> TRUE, text |-> rag_chunks[i], source |-> "local",
         url |-> current_url]]

\* the state dict of the turn before used again, the inputs written over it
MutExtendedInitialState(message, rag_chunks, current_url) ==
    [state EXCEPT
        !.keys = @ \cup {"messages", "current_url", "rag_chunks", "reasoning",
                         "next_action", "context", "local_passages"},
        !.messages = <<HumanMessage(message)>>,
        !.current_url = current_url,
        !.rag_chunks = rag_chunks,
        !.reasoning = "",
        !.next_action = "None",
        !.context = <<>>,
        !.local_passages = LocalPassagesOf(rag_chunks, current_url)]

\* the initial AgentState of process_message_extended_with_rag
ExtendedInitialState(message, rag_chunks, current_url) ==
    [LegacyInitialState(message, rag_chunks, current_url) EXCEPT
        !.keys = @ \cup {"local_passages"},
        !.local_passages = LocalPassagesOf(rag_chunks, current_url)]

\* LangGraph's merge of the dict a node returned into the state: every
\* returned key replaces the state's, except "messages", whose reducer
\* add_messages appends
MergeUpdate(st, keys, upd) ==
    [f \in DOMAIN st |->
        IF f = "keys" THEN st.keys \cup keys
        ELSE IF f \notin keys THEN st[f]
        ELSE IF f = "messages" THEN st.messages \o upd.messages
        ELSE upd[f]]

\* the content of the latest HumanMessage, None when there is none
RECURSIVE LastHumanContent(_)
LastHumanContent(messages) ==
    IF messages = <<>> THEN NoneStr
    ELSE IF messages[Len(messages)].type = "human"
         THEN Str(messages[Len(messages)].content)
         ELSE LastHumanContent(SubSeq(messages, 1, Len(messages) - 1))

\* the content of the latest AIMessage, None when there is none
RECURSIVE LastAIContent(_)
LastAIContent(messages) ==
    IF messages = <<>> THEN NoneStr
    ELSE IF messages[Len(messages)].type = "ai"
         THEN Str(messages[Len(messages)].content)
         ELSE LastAIContent(SubSeq(messages, 1, Len(messages) - 1))

(* ReasoningNode *)

\* ReasoningNode.execute asks the language model only when there is a
\* non-empty user message
ReasoningCallsLlm(st) == Truthy(LastHumanContent(st.messages))

\* the dict ReasoningNode.execute returns; llm_text is response.content
ReasoningResult(st, llm_text) ==
    IF ~ReasoningCallsLlm(st)
    THEN [reasoning |-> "No user message found", next_action |-> "respond_directly"]
    ELSE [reasoning |-> llm_text, next_action |-> "respond_directly"]

(* ContextPreparationNode, built by the agent without collectors *)

InformationFrom == <<"I", "n", "f", "o", "r", "m", "a", "t", "i", "o", "n", " ",
                     "f", "r", "o", "m", " ">>
TheWebsite == <<"t", "h", "e", " ", "w", "e", "b", "s", "i", "t", "e">>

\* f"Information from {current_url or 'the website'}:"
ContextHeader(current_url) ==
    InformationFrom \o (IF Truthy(current_url) THEN current_url.text ELSE TheWebsite)
    \o <<":">>

\* the context ContextPreparationNode.execute returns; relevant is the
\* outcome of _is_relevant, which decides between two branches that build
\* the same parts when web_search_collector is None
PreparedContext(rag_chunks, current_url, relevant) ==
    LET withChunks == <<ContextHeader(current_url)>>
                      \o Take(rag_chunks, ContextChunkLimit)
        context_parts ==
            IF rag_chunks # <<>> /\ relevant THEN withChunks
            ELSE IF rag_chunks # <<>> THEN withChunks
            ELSE <<>>
    IN  Join(context_parts, <<"\n">>)

(* ResponseDraftNode *)

DraftResult ==
    [draft_answer |-> "Preliminary draft based on local context.", citations |-> <<>>]

(* WebRetrieveSimpleNode *)

\* a metadata value is None, or an opaque non-empty string
MetaTruthy(v) == v \notin {"None", ""}

\* str(i) for the snippet numbers 1..8
DigitStr(n) == <<<<"0","1","2","3","4","5","6","7","8","9">>[n + 1]>>

SnippetPrefix == <<"S", "n", "i", "p", "p", "e", "t", " ">>

\* meta.get("source") or meta.get("url")
DocUrl(d) == IF MetaTruthy(d.source) THEN d.source ELSE d.url

\* parts, for the documents from position i on (i is enumerate's index + 1)
RECURSIVE SnippetParts(_, _)
SnippetParts(docs, i) ==
    IF i > Len(docs) THEN <<>>
    ELSE (IF docs[i].page_content # <<>>
          THEN <<SnippetPrefix \o DigitStr(i) \o <<":", " ">> \o docs[i].page_content>>
          ELSE <<>>)
         \o SnippetParts(docs, i + 1)

\* citations, for the documents from position i on
RECURSIVE SnippetCitations(_, _)
SnippetCitations(docs, i) ==
    IF i > Len(docs) THEN <<>>
    ELSE (IF MetaTruthy(DocUrl(docs[i])) \/ MetaTruthy(docs[i].title)
          THEN <<[url |-> DocUrl(docs[i]), title |-> docs[i].title]>>
          ELSE <<>>)
         \o SnippetCitations(docs, i + 1)

\* the dict WebRetrieveSimpleNode.execute returns for the documents docs
\* (the empty list when the retriever raised)
WebRetrieveResult(docs) ==
    [context   |-> Join(SnippetParts(Take(docs, SnippetLimit), 1), <<"\n">>),
     citations |-> SnippetCitations(Take(docs, SnippetLimit), 1)]

(* ResponseGenerationNode *)

GenerationApology ==
    <<"I", " ", "c", "o", "u", "l", "d", " ", "n", "o", "t", " ", "c", "o", "m",
      "p", "l", "e", "t", "e", " ", "t", "h", "e", " ", "a", "n", "s", "w", "e",
      "r", " ", "g", "e", "n", "e", "r", "a", "t", "i", "o", "n", " ", "a", "t",
      " ", "t", "h", "i", "s", " ", "t", "i", "m", "e", ".">>

\* content, from what the language model did: llm.raised, or llm.content
GeneratedContent(llm) ==
    IF llm.raised THEN GenerationApology
    ELSE IF Strip(llm.content) = <<>> THEN GenerationApology
    ELSE Strip(llm.content)

\* what ResponseGenerationNode.execute reads from the state for its prompt
GenerationInput(st) ==
    [context |-> st.context,
     citations |-> st.citations,
     question |-> LastHumanContent(st.messages)]

\* the dict ResponseGenerationNode.execute returns
GenerationResult(llm) ==
    [messages |-> <<AIMessage(GeneratedContent(llm))>>,
     final_answer |-> GeneratedContent(llm)]

(* The graphs *)

\* route_after_sufficiency with the two branches swapped
MutRouteAfterSufficiency(decision) ==
    IF decision = "sufficient" THEN "insufficient" ELSE "sufficient"

\* route_after_sufficiency
RouteAfterSufficiency(decision) ==
    IF decision \in {"sufficient", "insufficient"} THEN decision ELSE "insufficient"

\* state.get("decision")
DecisionOf(st) == IF "decision" \in st.keys THEN st.decision ELSE "None"

\* the edges of _build_workflow
LegacyEdge(node) ==
    CASE node = "reasoning" -> "context_preparation"
      [] node = "context_preparation" -> "response_generation"
      [] node = "response_generation" -> "END"

\* the edges of _build_extended_workflow, the mapping of the conditional
\* edge after response_sufficiency included
ExtendedEdge(node, st) ==
    CASE node = "reasoning" -> "context_preparation"
      [] node = "context_preparation" -> "response_draft"
      [] node = "response_draft" -> "response_sufficiency"
      [] node = "response_sufficiency" ->
            (IF RouteAfterSufficiency(DecisionOf(st)) = "sufficient"
             THEN "response_generation" ELSE "web_retrieve_simple")
      [] node = "web_retrieve_simple" -> "response_generation"
      [] node = "response_generation" -> "END"

\* the node that runs after `node` has returned and its update is merged
NextNode(node, st) ==
    IF flow = "legacy" THEN LegacyEdge(node) ELSE ExtendedEdge(node, st)

(* One agent handling turns *)

TurnMessages ==
    { <<>>,
      <<" ", " ">>,
      <<"h", "i">>,
      <<"l", "a", "t", "e", "s", "t", " ", "n", "e", "w", "s">> }

TurnChunkKinds == { <<"a", "b", "c">>, Repeat("x", MinPassageChars) }
TurnChunkLists == SeqsUpTo(TurnChunkKinds, MaxChunks)

TurnUrls == { NoneStr, Str(<<"h", "t", "t", "p", "s", ":", "/", "/", "x", ".", "i", "o">>) }

\* what a call of the generation language model can do
GenerationOutcomes ==
    { [content |-> <<>>, raised |-> TRUE],
      [content |-> <<>>, raised |-> FALSE],
      [content |-> <<" ", "\n">>, raised |-> FALSE],
      [content |-> <<" ", "o", "k", " ">>, raised |-> FALSE] }

\* the documents the Tavily retriever can return
DocKinds ==
    { [source |-> "https://a", url |-> "None", page_content |-> <<"w", "e", "b">>,
       title |-> "A"],
      [source |-> "None", url |-> "https://b", page_content |-> <<>>,
       title |-> "None"],
      [source |-> "None", url |-> "None", page_content |-> <<"w", "2">>,
       title |-> "None"] }
RetrieverDocLists == SeqsUpTo(DocKinds, MaxDocs)

\* no turn is running
NoEarlier == [decision |-> "None", cited |-> FALSE]

NoAnswer == [text |-> <<>>, given |-> FALSE, via |-> "none"]
NoSnapshot == [context |-> <<>>, citations |-> <<>>]
NoGenInput == [context |-> <<>>, citations |-> <<>>, question |-> NoneStr]

AgentInit ==
    /\ pc = "idle"
    /\ flow = "legacy"
    /\ state = NoState
    /\ cfgMinHits \in {1, DefaultMinLocalHits}
    /\ answer = NoAnswer
    /\ trace = <<>>
    /\ failed = {}
    /\ atGate = NoSnapshot
    /\ genInput = NoGenInput
    /\ earlier = NoEarlier

\* a turn begins: everything the previous turn left is replaced
BeginTurn(f, initial_state) ==
    /\ earlier' = [decision |-> DecisionOf(state), cited |-> state.citations # <<>>]
    /\ flow' = f
    /\ state' = initial_state
    /\ pc' = "reasoning"
    /\ answer' = NoAnswer
    /\ trace' = <<>>
    /\ failed' = {}
    /\ atGate' = NoSnapshot
    /\ genInput' = NoGenInput
    /\ UNCHANGED cfgMinHits
    /\ UNCHANGED othersThanAgent

\* process_message_with_rag up to self.app.ainvoke(initial_state)
ProcessMessageWithRag ==
    /\ pc \in {"idle", "returned"}
    /\ \E message \in TurnMessages, rag_chunks \in TurnChunkLists,
          current_url \in TurnUrls :
            BeginTurn("legacy", LegacyInitialState(message, rag_chunks, current_url))

\* process_message_extended_with_rag up to self.extended_app.ainvoke(initial_state)
ProcessMessageExtendedWithRag ==
    /\ pc \in {"idle", "returned"}
    /\ \E message \in TurnMessages, rag_chunks \in TurnChunkLists,
          current_url \in TurnUrls :
            BeginTurn("extended", ExtendedInitialState(message, rag_chunks, current_url))

\* a node returned the keys `keys` of `upd`: merge them and follow the edge
NodeReturns(node, keys, upd) ==
    /\ state' = MergeUpdate(state, keys, upd)
    /\ pc' = NextNode(node, state')
    /\ trace' = Append(trace, node)
    /\ UNCHANGED <<flow, cfgMinHits, answer, earlier>>
    /\ UNCHANGED othersThanAgent

\* ReasoningNode.execute returns
ReasoningExecute ==
    /\ pc = "reasoning"
    /\ NodeReturns("reasoning", {"reasoning", "next_action"},
                   ReasoningResult(state, "llm reasoning"))
    /\ UNCHANGED <<failed, atGate, genInput>>

\* ReasoningNode.execute: self.llm.ainvoke raises, nothing catches it in the
\* node, and the graph run ends with the exception
ReasoningRaises ==
    /\ pc = "reasoning"
    /\ ReasoningCallsLlm(state)
    /\ pc' = "raised"
    /\ trace' = Append(trace, "reasoning")
    /\ failed' = failed \cup {"reasoning"}
    /\ UNCHANGED <<flow, state, cfgMinHits, answer, atGate, genInput, earlier>>
    /\ UNCHANGED othersThanAgent

\* ContextPreparationNode.execute
ContextPreparationExecute ==
    /\ pc = "context_preparation"
    /\ \E relevant \in BOOLEAN :
        NodeReturns("context_preparation", {"context"},
                    [context |-> PreparedContext(state.rag_chunks,
                                                 state.current_url, relevant)])
    /\ UNCHANGED <<failed, atGate, genInput>>

\* ResponseDraftNode.execute
ResponseDraftExecute ==
    /\ pc = "response_draft"
    /\ NodeReturns("response_draft", {"draft_answer", "citations"}, DraftResult)
    /\ UNCHANGED <<failed, atGate, genInput>>

\* ResponseSufficiencyNode.execute in the extended graph
ResponseSufficiencyExecute ==
    /\ pc = "response_sufficiency"
    /\ atGate' = [context |-> state.context, citations |-> state.citations]
    /\ NodeReturns("response_sufficiency", {"decision", "deficits"},
                   SufficiencyExecute(state.messages, state.local_passages,
                                      cfgMinHits))
    /\ UNCHANGED <<failed, genInput>>

\* WebRetrieveSimpleNode.execute when the retriever returns docs
WebRetrieveSimpleExecute ==
    /\ pc = "web_retrieve_simple"
    /\ \E docs \in RetrieverDocLists :
        NodeReturns("web_retrieve_simple", {"context", "citations"},
                    WebRetrieveResult(docs))
    /\ UNCHANGED <<failed, atGate, genInput>>

\* WebRetrieveSimpleNode.execute when the retriever raises: docs = []
WebRetrieveSimpleFails ==
    /\ pc = "web_retrieve_simple"
    /\ NodeReturns("web_retrieve_simple", {"context", "citations"},
                   WebRetrieveResult(<<>>))
    /\ failed' = failed \cup {"web_retrieve_simple"}
    /\ UNCHANGED <<atGate, genInput>>

\* ResponseGenerationNode.execute, whatever the language model does
ResponseGenerationExecute ==
    /\ pc = "response_generation"
    /\ \E llm \in GenerationOutcomes :
        /\ NodeReturns("response_generation", {"messages", "final_answer"},
                       GenerationResult(llm))
        /\ failed' = IF llm.raised THEN failed \cup {"response_generation"}
                     ELSE failed
    /\ genInput' = GenerationInput(state)
    /\ UNCHANGED atGate

ApologyNoResponse ==
    <<"I", " ", "a", "p", "o", "l", "o", "g", "i", "z", "e", ",", " ", "b", "u",
      "t", " ", "I", " ", "c", "o", "u", "l", "d", "n", "'", "t", " ", "g", "e",
      "n", "e", "r", "a", "t", "e", " ", "a", " ", "r", "e", "s", "p", "o", "n",
      "s", "e", ".">>
ApologyErrorPrefix ==
    <<"I", " ", "a", "p", "o", "l", "o", "g", "i", "z", "e", ",", " ", "b", "u",
      "t", " ", "I", " ", "e", "n", "c", "o", "u", "n", "t", "e", "r", "e", "d",
      " ", "a", "n", " ", "e", "r", "r", "o", "r", " ", "w", "h", "i", "l", "e",
      " ", "p", "r", "o", "c", "e", "s", "s", "i", "n", "g", " ", "y", "o", "u",
      "r", " ", "r", "e", "q", "u", "e", "s", "t", ":", " ">>
\* str(e) of the exception the language-model client raised
LlmErrorText == <<"l", "l", "m", " ", "d", "o", "w", "n">>

\* what process_message_with_rag returns from final_state
LegacyAnswer(st) ==
    IF ~LastAIContent(st.messages).isNone
    THEN [text |-> LastAIContent(st.messages).text,
          given |-> TRUE, via |-> "last_ai_message"]
    ELSE [text |-> ApologyNoResponse, given |-> TRUE, via |-> "no_response"]

\* what process_message_extended_with_rag returns from final_state
ExtendedAnswer(st) ==
    IF "final_answer" \in st.keys /\ Strip(st.final_answer) # <<>>
    THEN [text |-> st.final_answer, given |-> TRUE, via |-> "final_answer"]
    ELSE LegacyAnswer(st)

\* the graph reached END: process_message_* returns the answer
ReturnAnswer ==
    /\ pc = "END"
    /\ answer' = IF flow = "legacy" THEN LegacyAnswer(state) ELSE ExtendedAnswer(state)
    /\ pc' = "returned"
    /\ earlier' = NoEarlier
    /\ UNCHANGED <<flow, state, cfgMinHits, trace, failed, atGate, genInput>>
    /\ UNCHANGED othersThanAgent

\* the graph run raised: the except clause of process_message_* returns
\* the apology that quotes the error
ReturnError ==
    /\ pc = "raised"
    /\ answer' = [text |-> ApologyErrorPrefix \o LlmErrorText,
                  given |-> TRUE, via |-> "exception"]
    /\ pc' = "returned"
    /\ earlier' = NoEarlier
    /\ UNCHANGED <<flow, state, cfgMinHits, trace, failed, atGate, genInput>>
    /\ UNCHANGED othersThanAgent

\* the agent is not running in this specification
AgentIdle ==
    /\ pc = "idle"
    /\ flow = "legacy"
    /\ state = NoState
    /\ cfgMinHits = DefaultMinLocalHits
    /\ answer = NoAnswer
    /\ trace = <<>>
    /\ failed = {}
    /\ atGate = NoSnapshot
    /\ genInput = NoGenInput
    /\ earlier = NoEarlier

\* the gate is not run on its own in this specification
GateIdle ==
    /\ gateState = [messages |-> <<>>, local_passages |-> <<>>]
    /\ gateMinHits = DefaultMinLocalHits
    /\ gateOut = NoGateOut
    /\ gatePc = "idle"

---------------------------------------------------------------------------
(* SearchPlannerNode *)

\* most fragments a planner question is put together from
MaxFragments == 3

\* tokens[:8]
KeywordTokenLimit == 8

\* text.replace("’", "'").replace("‘", "'")
\*     .replace("“", '"').replace("”", '"')
ReplaceSmartQuotes(text) ==
    [i \in 1..Len(text) |->
        IF text[i] \in {"RSQUO", "LSQUO"} THEN "'"
        ELSE IF text[i] \in {"LDQUO", "RDQUO"} THEN "\""
        ELSE text[i]]

\* s[i] exists and is a \w character
WordAt(s, i) == i >= 1 /\ i <= Len(s) /\ IsWordChar(s[i])

\* \b matches between s[i-1] and s[i]
BoundaryBefore(s, i) == WordAt(s, i - 1) # WordAt(s, i)

\* the i-th smallest element of the set of positions K
NthOf(K, i) == CHOOSE k \in K : Cardinality({j \in K : j <= k}) = i

\* the characters of s at the positions of K, in order
AtPositions(s, K) == [i \in 1..Cardinality(K) |-> s[NthOf(K, i)]]

\* \b(['’])s\b matches at position i
PossessiveAt(s, i) ==
    /\ i >= 1
    /\ i + 1 <= Len(s)
    /\ s[i] \in {"'", "RSQUO"}
    /\ s[i + 1] = "s"
    /\ BoundaryBefore(s, i)
    /\ BoundaryBefore(s, i + 2)

\* re.sub(r"\b(['’])s\b", "", s): every match is dropped (two matches
\* never overlap, a match being a quote followed by an s)
RemovePossessives(s) ==
    AtPositions(s, {i \in 1..Len(s) :
                        ~PossessiveAt(s, i) /\ ~PossessiveAt(s, i - 1)})

\* re.sub(r"\s+", " ", s): the first character of every run of whitespace
\* becomes a space and the rest of the run is dropped
CollapseSpaces(s) ==
    LET kept == AtPositions(s, {i \in 1..Len(s) :
                                   ~IsSpace(s[i]) \/ i = 1 \/ ~IsSpace(s[i - 1])})
    IN  [i \in 1..Len(kept) |-> IF IsSpace(kept[i]) THEN " " ELSE kept[i]]

\* normalize(text) of SearchPlannerNode.execute
normalize(text) ==
    Strip(CollapseSpaces(RemovePossessives(ReplaceSmartQuotes(text))))

\* a character of the class [\w.-]
IsTokenChar(c) == IsWordChar(c) \/ c \in {".", "-"}

\* length of the run of [\w.-] characters that starts at position i
RECURSIVE RunFrom(_, _)
RunFrom(s, i) ==
    IF i > Len(s) \/ ~IsTokenChar(s[i]) THEN 0 ELSE 1 + RunFrom(s, i + 1)

SitePrefix == <<"s", "i", "t", "e", ":">>

\* the positions where site:([\w.-]+) matches
SiteMatches(lower_q) ==
    {i \in 1..Len(lower_q) :
        MatchAt(lower_q, SitePrefix, i) /\ RunFrom(lower_q, i + Len(SitePrefix)) > 0}

\* site_hint: group 1 of the leftmost match of site:([\w.-]+), else None
SiteHint(lower_q) ==
    IF SiteMatches(lower_q) = {} THEN NoneStr
    ELSE LET i == CHOOSE k \in SiteMatches(lower_q) :
                      \A j \in SiteMatches(lower_q) : k <= j
             a == i + Len(SitePrefix)
         IN  Str(Slice(lower_q, a, a + RunFrom(lower_q, a) - 1))

\* the positions where a maximal run of [\w.-] characters starts
TokenStarts(s) ==
    {i \in 1..Len(s) : IsTokenChar(s[i]) /\ (i = 1 \/ ~IsTokenChar(s[i - 1]))}

\* re.findall(r"[\w.-]+", s): the maximal runs, in order
FindTokens(s) ==
    [i \in 1..Cardinality(TokenStarts(s)) |->
        Slice(s, NthOf(TokenStarts(s), i),
              NthOf(TokenStarts(s), i) + RunFrom(s, NthOf(TokenStarts(s), i)) - 1)]

stop ==
    { <<"t", "h", "e">>, <<"a">>, <<"a", "n">>, <<"a", "b", "o", "u", "t">>,
      <<"p", "l", "e", "a", "s", "e">>, <<"c", "a", "n">>, <<"y", "o", "u">>,
      <<"t", "e", "l", "l">>, <<"m", "e">>, <<"o", "f">>, <<"o", "n">>,
      <<"t", "o">>, <<"f", "o", "r">>, <<"i", "s">>, <<"a", "r", "e">>,
      <<"b", "e">>, <<"a", "n", "d">> }

NotStopword(t) == t \notin stop

\* tokens = [t for t in re.findall(r"[\w.-]+", lower_q) if t not in stop]
Tokens(lower_q) == SelectSeq(FindTokens(lower_q), NotStopword)

Ionos == <<"i", "o", "n", "o", "s">>
Wpmarmite == <<"w", "p", "m", "a", "r", "m", "i", "t", "e">>

\* topic: "ionos" when a token contains it, else None
Topic(tokens) ==
    IF \E i \in 1..Len(tokens) : Contains(tokens[i], Ionos)
    THEN Str(Ionos) ELSE NoneStr

\* brand: "wpmarmite" when a token contains it, else None
Brand(tokens) ==
    IF \E i \in 1..Len(tokens) : Contains(tokens[i], Wpmarmite)
    THEN Str(Wpmarmite) ELSE NoneStr

\* keyword_query = " ".join(tokens[:8]).strip()
KeywordQuery(tokens) == Strip(Join(Take(tokens, KeywordTokenLimit), <<" ">>))

\* brand_topic_query = f"{brand} {topic} article" when both were detected
BrandTopicQuery(tokens) ==
    IF Truthy(Brand(tokens)) /\ Truthy(Topic(tokens))
    THEN Str(Brand(tokens).text \o <<" ">> \o Topic(tokens).text
             \o <<" ", "a", "r", "t", "i", "c", "l", "e">>)
    ELSE NoneStr

\* `q in queries` for a list of strings
InList(q, queries) == \E i \in 1..Len(queries) : queries[i] = q

\* queries.append(q) if q, in the list already or not
MutAppendNew(queries, q) == IF q # <<>> THEN Append(queries, q) ELSE queries

\* queries.append(q) if q and q not in queries
AppendNew(queries, q) ==
    IF q # <<>> /\ ~InList(q, queries) THEN Append(queries, q) ELSE queries

\* the variants before the site hint is applied
BaseQueries(q_orig) ==
    LET tokens == Tokens(Lower(q_orig))
        q1 == IF q_orig # <<>> THEN <<q_orig>> ELSE <<>>
        q2 == AppendNew(q1, KeywordQuery(tokens))
    IN  IF Truthy(BrandTopicQuery(tokens))
        THEN AppendNew(q2, BrandTopicQuery(tokens).text)
        ELSE q2

\* the variants left without the site suffix
MutWithSiteHint(queries, site_hint) == queries

\* queries = [f"{q} site:{site_hint}" for q in queries] if site_hint
WithSiteHint(queries, site_hint) ==
    IF Truthy(site_hint)
    THEN [i \in 1..Len(queries) |->
            queries[i] \o <<" ">> \o SitePrefix \o site_hint.text]
    ELSE queries

Overview == <<"o", "v", "e", "r", "v", "i", "e", "w">>

\* FallbackQueries without the generic variant
MutFallbackQueries(queries) == queries

\* if not queries: queries = ["overview"]
FallbackQueries(queries) == IF queries = <<>> THEN <<Overview>> ELSE queries

\* a search_filters dict: the keys it holds and their values
NoFilters == [keys |-> {}, include_domains |-> <<>>, recent |-> FALSE]

\* search_filters of the planner
PlannerFilters(site_hint) ==
    IF Truthy(site_hint)
    THEN [NoFilters EXCEPT !.keys = {"include_domains"},
                           !.include_domains = <<site_hint.text>>]
    ELSE NoFilters

\* SearchPlannerNode.execute: the dict it returns
PlannerExecute(messages) ==
    LET q_orig    == normalize(LatestText(messages))
        site_hint == SiteHint(Lower(q_orig))
    IN  [queries |-> FallbackQueries(WithSiteHint(BaseQueries(q_orig), site_hint)),
         search_filters |-> PlannerFilters(site_hint)]

(* The planner run on its own: every input is drawn in PlannerInit *)

PlanFragments ==
    { <<"A", "c", "m", "e">>, <<"'", "s">>, <<"RSQUO", "s">>, <<" ">>,
      <<"t", "h", "e">>, Ionos, Wpmarmite, SitePrefix, <<"a", ".", "i", "o">> }

\* the concatenation of a list of fragments
RECURSIVE Concat(_)
Concat(parts) == IF parts = <<>> THEN <<>> ELSE Head(parts) \o Concat(Tail(parts))

PlanFixedTexts ==
    { <<" ", "\t">>,
      <<"", "É", "C", "O", "L", "E", " ", "", "I", "O", "N", "O", "S", "">>,
      <<"A", "c", "m", "e", "RSQUO", "s", " ", "Q", "3", " ", "r", "e", "p", "o",
        "r", "t", " ", "s", "i", "t", "e", ":", "a", "c", "m", "e", ".", "c", "o",
        "m">>,
      <<"LDQUO", "I", "O", "N", "O", "S", "RDQUO", " ", "\t", "\n", "p", "r", "i",
        "c", "e", "s", " ">>,
      <<"t", "e", "l", "l", " ", "m", "e", " ", "w", "p", "m", "a", "r", "m", "i",
        "t", "e", " ", "r", "e", "v", "i", "e", "w", " ", "o", "f", " ", "i", "o",
        "n", "o", "s", " ", "h", "o", "s", "t", "i", "n", "g", " ", "p", "l", "a",
        "n", "s", " ", "p", "r", "i", "c", "e", " ", "u", "p", "t", "i", "m", "e",
        " ", "s", "u", "p", "p", "o", "r", "t", " ", "s", "p", "e", "e", "d", " ",
        "b", "a", "c", "k", "u", "p">> }

PlanTexts ==
    {Concat(parts) : parts \in SeqsUpTo(PlanFragments, MaxFragments)}
    \cup PlanFixedTexts

PlanMessageLists ==
    {<<>>, <<NonStrMessage>>}
    \cup {<<HumanMessage(t)>> : t \in PlanTexts}
    \cup {<<HumanMessage(t), NonStrMessage>> : t \in PlanTexts}

NoPlan == [queries |-> <<>>, search_filters |-> NoFilters]

PlannerInit ==
    /\ planMessages \in PlanMessageLists
    /\ planOut = NoPlan
    /\ planPc = "ready"

\* one call of SearchPlannerNode.execute(state)
PlannerRun ==
    /\ planPc = "ready"
    /\ planOut' = PlannerExecute(planMessages)
    /\ planPc' = "done"
    /\ UNCHANGED planMessages
    /\ UNCHANGED othersThanPlanner

\* the planner is not run on its own in this specification
PlannerIdle ==
    /\ planMessages = <<>>
    /\ planOut = NoPlan
    /\ planPc = "idle"

---------------------------------------------------------------------------
(* WebSearchNode and SearchClient *)

\* longest query list handed to the search stage
MaxVariants == 3
\* largest budgets["max_queries"] tried (the smallest is -1)
MaxBudget == 2

\* max_queries when the budget does not give an int
DefaultMaxQueries == 3

\* items[:n] of Python, n of either sign
PySliceTo(items, n) ==
    IF n >= 0 THEN Take(items, n)
    ELSE IF Len(items) + n > 0 THEN Take(items, Len(items) + n)
    ELSE <<>>

\* a budgets dict without keys
NoBudget == [keys |-> {}, max_queries |-> 0, isInt |-> FALSE]

\* if not queries: queries = [""]
ClientQueries(queries) == IF queries = <<>> THEN << <<>> >> ELSE queries

\* max_queries = 3, or budget["max_queries"] when the budget holds an int
MaxQueriesOf(budget) ==
    IF "max_queries" \in budget.keys /\ budget.isInt
    THEN budget.max_queries ELSE DefaultMaxQueries

\* queries[:max_queries], the variants a provider loop goes through
IssuedQueries(queries, budget) ==
    PySliceTo(ClientQueries(queries), MaxQueriesOf(budget))

Tavily == <<"t", "a", "v", "i", "l", "y">>

\* (self.provider or "").lower() == "tavily"
UsesTavily(provider) == Lower(provider) = Tavily

RecencyCues ==
    << <<"l", "a", "t", "e", "s", "t">>,
       <<"t", "o", "d", "a", "y">>,
       <<"t", "h", "i", "s", " ", "w", "e", "e", "k">>,
       <<"t", "h", "i", "s", " ", "m", "o", "n", "t", "h">>,
       <<"2", "0", "2", "5">>,
       <<"2", "0", "2", "4">> >>

\* any(k in " ".join(queries).lower() for k in [...])
HasRecencyCue(queries) ==
    \E i \in 1..Len(RecencyCues) :
        Contains(Lower(Join(queries, <<" ">>)), RecencyCues[i])

\* filters after `filters["recent"] = True` under a recency cue
NodeFilters(search_filters, queries) ==
    IF HasRecencyCue(queries)
    THEN [search_filters EXCEPT !.keys = @ \cup {"recent"}, !.recent = TRUE]
    ELSE search_filters

\* filters.get("recent")
RecentOf(filters) == "recent" \in filters.keys /\ filters.recent

\* the retry condition without the test of the recent filter
MutShouldRetry(web_results, filters) == web_results = <<>>

\* not web_results and filters.get("recent")
ShouldRetry(web_results, filters) == web_results = <<>> /\ RecentOf(filters)

\* filters2 = dict(filters); filters2.pop("recent", None)
WithoutRecent(filters) ==
    [filters EXCEPT !.keys = @ \ {"recent"}, !.recent = FALSE]

\* search_filters and search_filters.get("include_domains")
PassesDomains(filters) ==
    "include_domains" \in filters.keys /\ filters.include_domains # <<>>

\* the keys of the JSON payload posted to Tavily
TavilyPayloadKeys(filters) ==
    {"api_key", "query", "include_answer", "search_type", "search_depth",
     "max_results"}
    \cup (IF PassesDomains(filters) THEN {"include_domains"} ELSE {})

\* the arguments of ddg.text
DdgPayloadKeys == {"query", "max_results"}

\* the results appended for the n items of one provider response
ResultsOf(engine, n) ==
    [idx \in 1..n |->
        [url |-> "url", title |-> "title", engine |-> engine,
         snippet |-> "snippet", rank |-> idx, date |-> "None"]]

\* one provider request, as it is logged; items is the number of results
\* appended for it
Request(engine, position, q, payload, filters, raised, n) ==
    [items |-> n, raised |-> raised, query |-> q, engine |-> engine,
     position |-> position, payload |-> payload, pass |-> wsPass,
     domains |-> IF "include_domains" \in payload THEN filters.include_domains
                 ELSE <<>>]

(* One execution of WebSearchNode: every input is drawn in SearchInit *)

\* how many items a provider response holds
ItemCounts == {0, 2}

SearchTexts == { <<"T", "h", "i", "s">>, <<"w", "e", "e", "k">> }

SearchFilterKinds ==
    { NoFilters,
      [NoFilters EXCEPT !.keys = {"recent"}, !.recent = TRUE],
      [NoFilters EXCEPT !.keys = {"recent"}],
      [NoFilters EXCEPT !.keys = {"include_domains"},
                        !.include_domains = << <<"a", ".", "i", "o">> >>] }

BudgetKinds ==
    { NoBudget,
      [NoBudget EXCEPT !.keys = {"max_queries"}, !.max_queries = 2] }
    \cup { [NoBudget EXCEPT !.keys = {"max_queries"}, !.max_queries = n,
                            !.isInt = TRUE] : n \in (0 - 1)..MaxBudget }

Providers == { <<>>, <<"T", "a", "v", "i", "l", "y">>, <<"b", "r", "a", "v", "e">> }

NoSearchState == [queries |-> <<>>, search_filters |-> NoFilters, budgets |-> NoBudget]

SearchInit ==
    /\ wsState \in [queries : SeqsUpTo(SearchTexts, MaxVariants),
                    search_filters : SearchFilterKinds,
                    budgets : BudgetKinds]
    /\ wsProvider \in Providers
    /\ wsPc = "ready"
    /\ wsPass = 0
    /\ wsFilters = NoFilters
    /\ wsIdx = 1
    /\ wsResults = <<>>
    /\ wsCalls = <<>>
    /\ wsPhases = <<>>
    /\ wsPasses = <<>>
    /\ wsOut = <<>>

\* the variants of this execution's provider loops
Issued == IssuedQueries(wsState.queries, wsState.budgets)

\* client.search(...) is entered with the filters `filters` as pass p
EnterSearch(p, filters) ==
    /\ wsPass' = p
    /\ wsFilters' = filters
    /\ wsResults' = <<>>
    /\ wsIdx' = 1
    /\ wsPc' = IF UsesTavily(wsProvider) THEN "tavily" ELSE "duckduckgo"
    /\ wsPhases' = Append(wsPhases,
                          [engine |-> IF UsesTavily(wsProvider) THEN "tavily"
                                      ELSE "duckduckgo",
                           pass |-> p])

\* WebSearchNode.execute up to the first client.search: the filters are made
\* (in place, when the state holds a non-empty search_filters dict)
WebSearchBegin ==
    /\ wsPc = "ready"
    /\ EnterSearch(1, NodeFilters(wsState.search_filters, wsState.queries))
    /\ wsState' = IF wsState.search_filters.keys # {}
                  THEN [wsState EXCEPT !.search_filters =
                            NodeFilters(wsState.search_filters, wsState.queries)]
                  ELSE wsState
    /\ UNCHANGED <<wsProvider, wsCalls, wsPasses, wsOut>>
    /\ UNCHANGED othersThanSearch

\* one turn of the Tavily loop whose request is answered with n items
TavilyRequest ==
    /\ wsPc = "tavily"
    /\ wsIdx <= Len(Issued)
    /\ \E n \in ItemCounts :
        /\ wsResults' = wsResults \o ResultsOf("tavily", n)
        /\ wsCalls' = Append(wsCalls,
                             Request("tavily", wsIdx, Issued[wsIdx],
                                     TavilyPayloadKeys(wsFilters), wsFilters,
                                     FALSE, n))
    /\ wsIdx' = wsIdx + 1
    /\ UNCHANGED <<wsState, wsProvider, wsPc, wsPass, wsFilters, wsPhases,
                   wsPasses, wsOut>>
    /\ UNCHANGED othersThanSearch

\* one turn of the Tavily loop whose try block raises, in the request or
\* at an item of the response after n items were appended: the results
\* appended stay, the except clause of the loop body logs it and the loop
\* goes on
TavilyRequestFails ==
    /\ wsPc = "tavily"
    /\ wsIdx <= Len(Issued)
    /\ \E n \in ItemCounts :
        /\ wsResults' = wsResults \o ResultsOf("tavily", n)
        /\ wsCalls' = Append(wsCalls,
                             Request("tavily", wsIdx, Issued[wsIdx],
                                     TavilyPayloadKeys(wsFilters), wsFilters,
                                     TRUE, n))
    /\ wsIdx' = wsIdx + 1
    /\ UNCHANGED <<wsState, wsProvider, wsPc, wsPass, wsFilters, wsPhases,
                   wsPasses, wsOut>>
    /\ UNCHANGED othersThanSearch

\* the Tavily loop is over: `if not results` enters the DuckDuckGo fallback
TavilyLoopEnds ==
    /\ wsPc = "tavily"
    /\ wsIdx > Len(Issued)
    /\ wsPc' = IF wsResults = <<>> THEN "duckduckgo" ELSE "searched"
    /\ wsPhases' = IF wsResults = <<>>
                   THEN Append(wsPhases, [engine |-> "duckduckgo", pass |-> wsPass])
                   ELSE wsPhases
    /\ wsIdx' = 1
    /\ UNCHANGED <<wsState, wsProvider, wsPass, wsFilters, wsResults, wsCalls,
                   wsPasses, wsOut>>
    /\ UNCHANGED othersThanSearch

\* one turn of the DuckDuckGo loop whose request is answered with n items
DdgRequest ==
    /\ wsPc = "duckduckgo"
    /\ wsIdx <= Len(Issued)
    /\ \E n \in ItemCounts :
        /\ wsResults' = wsResults \o ResultsOf("duckduckgo", n)
        /\ wsCalls' = Append(wsCalls,
                             Request("duckduckgo", wsIdx, Issued[wsIdx],
                                     DdgPayloadKeys, wsFilters, FALSE, n))
    /\ wsIdx' = wsIdx + 1
    /\ UNCHANGED <<wsState, wsProvider, wsPc, wsPass, wsFilters, wsPhases,
                   wsPasses, wsOut>>
    /\ UNCHANGED othersThanSearch

\* one turn of the DuckDuckGo loop that raises, in ddg.text or while its
\* answer is read after n items were appended: the results appended stay,
\* the except clause around the whole loop logs it, and search() goes on
\* to return results
DdgRequestFails ==
    /\ wsPc = "duckduckgo"
    /\ wsIdx <= Len(Issued)
    /\ \E n \in ItemCounts :
        /\ wsResults' = wsResults \o ResultsOf("duckduckgo", n)
        /\ wsCalls' = Append(wsCalls,
                             Request("duckduckgo", wsIdx, Issued[wsIdx],
                                     DdgPayloadKeys, wsFilters, TRUE, n))
    /\ wsPc' = "searched"
    /\ UNCHANGED <<wsState, wsProvider, wsPass, wsFilters, wsIdx,
                   wsPhases, wsPasses, wsOut>>
    /\ UNCHANGED othersThanSearch

\* `from duckduckgo_search import DDGS` or `DDGS()` raises before the loop:
\* no request is made, the except clause logs it and search() returns
DdgSetupFails ==
    /\ wsPc = "duckduckgo"
    /\ wsIdx = 1
    /\ wsPc' = "searched"
    /\ UNCHANGED <<wsState, wsProvider, wsPass, wsFilters, wsIdx, wsResults,
                   wsCalls, wsPhases, wsPasses, wsOut>>
    /\ UNCHANGED othersThanSearch

\* the DuckDuckGo loop is over
DdgLoopEnds ==
    /\ wsPc = "duckduckgo"
    /\ wsIdx > Len(Issued)
    /\ wsPc' = "searched"
    /\ UNCHANGED <<wsState, wsProvider, wsPass, wsFilters, wsIdx, wsResults,
                   wsCalls, wsPhases, wsPasses, wsOut>>
    /\ UNCHANGED othersThanSearch

\* the pass that just returned, as it is logged
PassDone == [filters |-> wsFilters, results |-> wsResults]

\* the first client.search returned nothing under a recent filter:
\* WebSearchNode searches again with filters2
WebSearchRetry ==
    /\ wsPc = "searched"
    /\ wsPass = 1
    /\ ShouldRetry(wsResults, wsFilters)
    /\ wsPasses' = Append(wsPasses, PassDone)
    /\ EnterSearch(2, WithoutRecent(wsFilters))
    /\ UNCHANGED <<wsState, wsProvider, wsCalls, wsOut>>
    /\ UNCHANGED othersThanSearch

\* WebSearchNode.execute returns {"web_results": web_results}
WebSearchReturn ==
    /\ wsPc = "searched"
    /\ wsPass = 1 => ~ShouldRetry(wsResults, wsFilters)
    /\ wsPasses' = Append(wsPasses, PassDone)
    /\ wsOut' = wsResults
    /\ wsPc' = "done"
    /\ UNCHANGED <<wsState, wsProvider, wsPass, wsFilters, wsIdx, wsResults,
                   wsCalls, wsPhases>>
    /\ UNCHANGED othersThanSearch

\* the search stage is not run on its own in this specification
SearchIdle ==
    /\ wsState = NoSearchState
    /\ wsProvider = <<>>
    /\ wsPc = "idle"
    /\ wsPass = 0
    /\ wsFilters = NoFilters
    /\ wsIdx = 1
    /\ wsResults = <<>>
    /\ wsCalls = <<>>
    /\ wsPhases = <<>>
    /\ wsPasses = <<>>
    /\ wsOut = <<>>

---------------------------------------------------------------------------
(* WebReader *)

\* longest URL list handed to the reader
MaxUrls == 2
\* largest budget["max_pages"] tried (the smallest is -1)
MaxPages == 3

\* max_pages when the budget does not give an int
DefaultMaxPages == 6
\* window_size
WindowSize == 800
\* overlap
Overlap == 200
\* the length from which a window is kept
MinWindowChars == 200

\* a reader budget dict without keys
NoReaderBudget == [keys |-> {}, isInt |-> FALSE, max_pages |-> 0]

\* max_pages = 6, or budget["max_pages"] when the budget holds an int
MaxPagesOf(budget) ==
    IF "max_pages" \in budget.keys /\ budget.isInt
    THEN budget.max_pages ELSE DefaultMaxPages

TextHtml == <<"t", "e", "x", "t", "/", "h", "t", "m", "l">>

\* "text/html" in resp.headers.get("Content-Type", "").lower()
IsHtml(ctype) == Contains(Lower(ctype), TextHtml)

\* end = min(start + window_size, len(text))
WindowEnd(text, start) ==
    IF start + WindowSize < Len(text) THEN start + WindowSize ELSE Len(text)

\* passage = text[start:end]
WindowAt(text, start) == Slice(text, start + 1, WindowEnd(text, start))

\* a loop whose windows do not overlap
MutNextStart(end) == end

\* start = end - overlap
NextStart(end) == end - Overlap

\* a test that drops a window of exactly 200 characters
MutKeepsWindow(passage) == Len(passage) > MinWindowChars

\* if len(passage) >= 200
KeepsWindow(passage) == Len(passage) >= MinWindowChars

\* the offsets of the windows the while loop appends for text from the
\* 0-based offset start on, when results already holds `have` passages
RECURSIVE WindowStarts(_, _, _, _)
WindowStarts(text, start, have, max_pages) ==
    IF ~(start < Len(text) /\ have < max_pages) THEN <<>>
    ELSE LET end == WindowEnd(text, start)
             kept == KeepsWindow(WindowAt(text, start))
         IN  (IF kept THEN <<start>> ELSE <<>>)
             \o (IF end = Len(text) THEN <<>>
                 ELSE WindowStarts(text, NextStart(end),
                                   IF kept THEN have + 1 ELSE have, max_pages))

\* the dicts appended to results for one page whose text was extracted
PassagesOf(page, have, max_pages) ==
    LET starts == WindowStarts(page.text, 0, have, max_pages)
    IN  [i \in 1..Len(starts) |->
            [url |-> page.url, title |-> page.title, date |-> "None",
             passage |-> WindowAt(page.text, starts[i])]]

\* an except clause around the whole loop: a failure ends the loop
MutAfterFailure(idx, last) == last + 1

\* the turn of the loop after one whose body raised: the except clause is
\* inside the loop body, so the loop goes on with the next URL
AfterFailure(idx, last) == idx + 1

(* One call of WebReader.fetch_and_extract: every input is drawn in ReaderInit *)

\* an extracted text of n characters, every character telling its position
PageText(n) == [i \in 1..n |-> LowerChars[((i - 1) % 26) + 1]]

\* what fetching and parsing a URL gives: the request raises, or a response
\* with a Content-Type header, a title and the paragraphs' text
Page(url, raises, ctype, n) ==
    [text |-> PageText(n), url |-> url, title |-> "title", ctype |-> ctype,
     raises |-> raises]

HtmlType == <<"T", "e", "x", "t", "/", "H", "T", "M", "L", ";", " ", "c", "h", "a",
              "r", "s", "e", "t", "=", "u", "t", "f", "-", "8">>
JsonType == <<"a", "p", "p", "l", "i", "c", "a", "t", "i", "o", "n", "/", "j", "s",
              "o", "n">>

PageKinds ==
    { Page("https://down.example", TRUE, <<>>, 0),
      Page("https://api.example", FALSE, JsonType, WindowSize),
      Page("https://blank.example", FALSE, HtmlType, 0),
      Page("https://short.example", FALSE, HtmlType, MinWindowChars - 1),
      Page("https://one.example", FALSE, TextHtml, MinWindowChars),
      Page("https://full.example", FALSE, HtmlType, WindowSize),
      Page("https://two.example", FALSE, HtmlType, WindowSize + 1),
      Page("https://even.example", FALSE, HtmlType, 2 * WindowSize - Overlap),
      Page("https://three.example", FALSE, HtmlType,
           2 * (WindowSize - Overlap) + MinWindowChars + 1) }

ReaderBudgetKinds ==
    { NoReaderBudget,
      [NoReaderBudget EXCEPT !.keys = {"max_pages"}, !.max_pages = 2] }
    \cup { [NoReaderBudget EXCEPT !.keys = {"max_pages"}, !.max_pages = n,
                                  !.isInt = TRUE] : n \in (0 - 1)..MaxPages }

ReaderInit ==
    /\ wrPages \in SeqsUpTo(PageKinds, MaxUrls)
    /\ wrBudget \in ReaderBudgetKinds
    /\ wrPc = "ready"
    /\ wrIdx = 1
    /\ wrFetched = <<>>
    /\ wrResults = <<>>
    /\ wrStarts = <<>>

\* urls[:max_pages], as positions of the URL list
ReaderSlice == PySliceTo([i \in 1..Len(wrPages) |-> i], MaxPagesOf(wrBudget))

\* fetch_and_extract up to the loop: `if not urls: return []`
ReaderBegin ==
    /\ wrPc = "ready"
    /\ wrPc' = IF wrPages = <<>> THEN "done" ELSE "loop"
    /\ UNCHANGED <<wrPages, wrBudget, wrIdx, wrFetched, wrResults, wrStarts>>
    /\ UNCHANGED othersThanReader

\* one turn of the loop: client.get or raise_for_status raises, and the
\* except clause of the loop body logs it
ReaderFetchFails ==
    /\ wrPc = "loop"
    /\ wrIdx <= Len(ReaderSlice)
    /\ wrPages[ReaderSlice[wrIdx]].raises
    /\ wrFetched' = Append(wrFetched, ReaderSlice[wrIdx])
    /\ wrIdx' = AfterFailure(wrIdx, Len(ReaderSlice))
    /\ UNCHANGED <<wrPages, wrBudget, wrPc, wrResults, wrStarts>>
    /\ UNCHANGED othersThanReader

\* one turn of the loop that ends in `continue`: the response is not HTML,
\* or no paragraph text was extracted
ReaderSkips ==
    /\ wrPc = "loop"
    /\ wrIdx <= Len(ReaderSlice)
    /\ ~wrPages[ReaderSlice[wrIdx]].raises
    /\ \/ ~IsHtml(wrPages[ReaderSlice[wrIdx]].ctype)
       \/ wrPages[ReaderSlice[wrIdx]].text = <<>>
    /\ wrFetched' = Append(wrFetched, ReaderSlice[wrIdx])
    /\ wrIdx' = wrIdx + 1
    /\ UNCHANGED <<wrPages, wrBudget, wrPc, wrResults, wrStarts>>
    /\ UNCHANGED othersThanReader

\* one turn of the loop that windows the extracted text
ReaderExtracts ==
    /\ wrPc = "loop"
    /\ wrIdx <= Len(ReaderSlice)
    /\ ~wrPages[ReaderSlice[wrIdx]].raises
    /\ IsHtml(wrPages[ReaderSlice[wrIdx]].ctype)
    /\ wrPages[ReaderSlice[wrIdx]].text # <<>>
    /\ wrResults' = wrResults \o PassagesOf(wrPages[ReaderSlice[wrIdx]],
                                           Len(wrResults), MaxPagesOf(wrBudget))
    /\ wrStarts' = wrStarts
          \o [i \in 1..Len(WindowStarts(wrPages[ReaderSlice[wrIdx]].text, 0,
                                        Len(wrResults), MaxPagesOf(wrBudget))) |->
                <<ReaderSlice[wrIdx],
                  WindowStarts(wrPages[ReaderSlice[wrIdx]].text, 0,
                               Len(wrResults), MaxPagesOf(wrBudget))[i]>>]
    /\ wrFetched' = Append(wrFetched, ReaderSlice[wrIdx])
    /\ wrIdx' = wrIdx + 1
    /\ UNCHANGED <<wrPages, wrBudget, wrPc>>
    /\ UNCHANGED othersThanReader

\* the loop is over: return results
ReaderReturn ==
    /\ wrPc = "loop"
    /\ wrIdx > Len(ReaderSlice)
    /\ wrPc' = "done"
    /\ UNCHANGED <<wrPages, wrBudget, wrIdx, wrFetched, wrResults, wrStarts>>
    /\ UNCHANGED othersThanReader

\* the reader is not run on its own in this specification
ReaderIdle ==
    /\ wrPages = <<>>
    /\ wrBudget = NoReaderBudget
    /\ wrPc = "idle"
    /\ wrIdx = 1
    /\ wrFetched = <<>>
    /\ wrResults = <<>>
    /\ wrStarts = <<>>

---------------------------------------------------------------------------
(* EvidenceRankerNode *)

\* longest local_passages and web_passages lists built from the kinds
MaxLocalIn == 2
MaxWebIn == 2

\* top_k of the mmr_diversify call
TopK == 10
\* the length of the text prefix in the dedup key
KeyPrefixLen == 80

\* a passage dict: `keys` are the keys it holds
Dict(keys, text, passage, url, title, source) ==
    [text |-> text, source |-> source, url |-> url, keys |-> keys,
     title |-> title, passage |-> passage]

\* p.get("text", "") and p.get("passage", "")
GetText(p) == IF "text" \in p.keys THEN p.text ELSE <<>>
GetPassage(p) == IF "passage" \in p.keys THEN p.passage ELSE <<>>
\* p.get("url") and p.get("title")
GetUrl(p) == IF "url" \in p.keys THEN p.url ELSE "None"
GetTitle(p) == IF "title" \in p.keys THEN p.title ELSE "None"

UnifiedKeys == {"text", "url", "title", "source"}

\* the dict appended to unified for a local passage
UnifyLocal(p) == Dict(UnifiedKeys, GetText(p), <<>>, GetUrl(p), GetTitle(p), "local")
\* the dict appended to unified for a web passage
UnifyWeb(p) == Dict(UnifiedKeys, GetPassage(p), <<>>, GetUrl(p), GetTitle(p), "web")

\* unified: the local passages, then the web passages
Unified(local, web) ==
    [i \in 1..Len(local) |-> UnifyLocal(local[i])]
        \o [i \in 1..Len(web) |-> UnifyWeb(web[i])]

\* one character of [\w-]
IsKeywordChar(c) == IsWordChar(c) \/ c = "-"

\* the last position of the run of [\w-] characters that starts at i
KeywordRunEnd(s, i) ==
    CHOOSE j \in i..Len(s) :
        /\ \A k \in i..j : IsKeywordChar(s[k])
        /\ j = Len(s) \/ ~IsKeywordChar(s[j + 1])

\* set(re.findall(r"[\w-]+", s.lower()))
KeywordTokens(s) ==
    { Slice(Lower(s), i, KeywordRunEnd(s, i)) :
        i \in {k \in 1..Len(s) :
                 IsKeywordChar(s[k]) /\ (k = 1 \/ ~IsKeywordChar(s[k - 1]))} }

\* keyword_score(text, q), the float as the fraction num/den
keyword_score(text, q) ==
    IF text = <<>> \/ q = <<>> THEN [num |-> 0, den |-> 1]
    ELSE IF KeywordTokens(q) = {} THEN [num |-> 0, den |-> 1]
    ELSE [num |-> Cardinality(KeywordTokens(q) \cap KeywordTokens(text)),
          den |-> Cardinality(KeywordTokens(q))]

\* a > b on two scores
ScoreGreater(a, b) == a.num * b.den > b.num * a.den

\* scored: every unified item with its score
Scored(unified, query) ==
    [i \in 1..Len(unified) |->
        [item |-> unified[i], score |-> keyword_score(unified[i].text, query)]]

\* a dedup key made of the url and the whole text
MutDedupKey(item) == <<GetUrl(item), GetText(item)>>

\* key = (item.get("url"), (item.get("text") or "")[:80])
DedupKey(item) == <<GetUrl(item), Take(GetText(item), KeyPrefixLen)>>

\* the positions of scored whose key no earlier position has: the ones the
\* `seen` loop appends to deduped
KeptPositions(scored) ==
    {i \in 1..Len(scored) :
        \A j \in 1..(i - 1) : DedupKey(scored[j].item) # DedupKey(scored[i].item)}

\* deduped
Deduped(scored) ==
    [i \in 1..Cardinality(KeptPositions(scored)) |->
        scored[NthOf(KeptPositions(scored), i)]]

\* the list left as it is
MutSortedByScore(pairs) == pairs

\* sorted(scored_passages, key=lambda x: x[1], reverse=True): a stable sort,
\* equal scores keep their order
SortedByScore(pairs) ==
    [k \in 1..Len(pairs) |->
        pairs[CHOOSE i \in 1..Len(pairs) :
                 k = 1 + Cardinality({j \in 1..Len(pairs) :
                                        \/ ScoreGreater(pairs[j].score, pairs[i].score)
                                        \/ /\ j < i
                                           /\ ~ScoreGreater(pairs[i].score, pairs[j].score)})]]

\* mmr_diversify(scored_passages, top_k=top_k)
mmr_diversify(scored_passages, top_k) ==
    LET sorted_items == SortedByScore(scored_passages)
        top == PySliceTo(sorted_items, top_k)
    IN  [i \in 1..Len(top) |-> top[i].item]

\* EvidenceRankerNode.execute: ranked_passages
RankerExecute(local, web, messages) ==
    mmr_diversify(Deduped(Scored(Unified(local, web), LatestText(messages))), TopK)

(* One execution of EvidenceRankerNode, and a second one on its output *)

NoUrl == "None"
UrlA == "https://a.example"

MailText == <<"m", "a", "i", "l">>
SetupText == <<"I", "o", "n", "o", "s", " ", "m", "a", "i", "l", " ", "s", "e", "t", "u", "p">>
EmailText == <<"e", "-", "m", "a", "i", "l">>
\* 80 characters of three-letter words
Filler == [i \in 1..KeyPrefixLen |-> IF i % 4 = 0 THEN " " ELSE "x"]
\* two texts with the same first 80 characters
LongIonosText == Filler \o <<"i", "o", "n", "o", "s">>
LongMailText == Filler \o <<"m", "a", "i", "l">>

LocalPassage(text, url) == Dict({"text", "url"}, text, <<>>, url, "None", "None")
WebPassage(passage, url) ==
    Dict({"url", "title", "passage", "date"}, <<>>, passage, url, "title", "None")

LocalKinds ==
    { LocalPassage(MailText, NoUrl),
      LocalPassage(LongIonosText, NoUrl),
      Dict({}, <<>>, <<>>, "None", "None", "None") }

WebKinds ==
    { WebPassage(MailText, NoUrl),
      WebPassage(SetupText, UrlA),
      WebPassage(LongMailText, NoUrl) }

\* more distinct web passages than top_k, the best ones last
ManyWeb ==
    [i \in 1..(TopK + 2) |->
        WebPassage(IF i = TopK + 2 THEN SetupText
                   ELSE IF i = TopK + 1 THEN MailText
                   ELSE IF i = 1 THEN EmailText
                   ELSE <<LowerChars[i]>>, NoUrl)]

RankerMessageLists ==
    { <<>>,
      <<HumanMessage(<<"?", "!">>)>>,
      <<HumanMessage(<<" ", "I", "O", "N", "O", "S", " ", "m", "a", "i", "l", " ">>),
        AIMessage(<<" ">>)>> }

\* values of Config.MAX_WEB_PASSAGES: a small one and the default
WebPassageCaps == {2, 16}

RankerInit ==
    /\ rrLocal \in SeqsUpTo(LocalKinds, MaxLocalIn)
    /\ rrWeb \in SeqsUpTo(WebKinds, MaxWebIn) \cup {ManyWeb}
    /\ rrMessages \in RankerMessageLists
    /\ rrMaxWebPassages \in WebPassageCaps
    /\ rrPc = "ready"
    /\ rrOut = <<>>
    /\ rrFeed = "None"
    /\ rrOut2 = <<>>

\* execute(state)
RankerRun ==
    /\ rrPc = "ready"
    /\ rrOut' = RankerExecute(rrLocal, rrWeb, rrMessages)
    /\ rrPc' = "ranked"
    /\ UNCHANGED <<rrLocal, rrWeb, rrMessages, rrMaxWebPassages, rrFeed, rrOut2>>
    /\ UNCHANGED othersThanRanker

\* execute on a state that holds ranked_passages of the first execution as
\* its local_passages or as its web_passages, and the same messages
RankerRerun ==
    /\ rrPc = "ranked"
    /\ \E feed \in {"local_passages", "web_passages"} :
          /\ rrFeed' = feed
          /\ rrOut2' = IF feed = "local_passages"
                       THEN RankerExecute(rrOut, <<>>, rrMessages)
                       ELSE RankerExecute(<<>>, rrOut, rrMessages)
    /\ rrPc' = "reranked"
    /\ UNCHANGED <<rrLocal, rrWeb, rrMessages, rrMaxWebPassages, rrOut>>
    /\ UNCHANGED othersThanRanker

\* the ranker is not run on its own in this specification
RankerIdle ==
    /\ rrLocal = <<>>
    /\ rrWeb = <<>>
    /\ rrMessages = <<>>
    /\ rrMaxWebPassages = 16
    /\ rrPc = "idle"
    /\ rrOut = <<>>
    /\ rrFeed = "None"
    /\ rrOut2 = <<>>

---------------------------------------------------------------------------
(* ContextMergeNode *)

\* longest ranked_passages list built from the kinds
MaxRanked == 3

\* the number of ranked passages the merge reads
MergeLimit == 8

UrlB == "https://b.example"

\* the characters of a url or title as an f-string prints it
StrChars(s) ==
    CASE s = "None" -> <<"N", "o", "n", "e">>
      [] s = "" -> <<>>
      [] s = "title" -> <<"t", "i", "t", "l", "e">>
      [] s = UrlA -> <<"h", "t", "t", "p", "s", ":", "/", "/", "a", ".",
                       "e", "x", "a", "m", "p", "l", "e">>
      [] s = UrlB -> <<"h", "t", "t", "p", "s", ":", "/", "/", "b", ".",
                       "e", "x", "a", "m", "p", "l", "e">>

\* truthiness of a url or title: None and "" are falsy
StrTruthy(s) == s \notin {"None", ""}

\* the positions i + 1 of ranked[:8] whose stripped text is not empty
MergedPositions(ranked) ==
    {i \in 1..Len(PySliceTo(ranked, MergeLimit)) : Strip(GetText(ranked[i])) # <<>>}

\* f"Source {i+1} ({title or url}):\n{text}"
SourceBlock(n, p) ==
    <<"S", "o", "u", "r", "c", "e", " ">> \o DigitStr(n) \o <<" ", "(">>
        \o StrChars(IF StrTruthy(GetTitle(p)) THEN GetTitle(p) ELSE GetUrl(p))
        \o <<")", ":", "\n">> \o Strip(GetText(p))

\* merged_parts
MergedParts(ranked) ==
    [k \in 1..Cardinality(MergedPositions(ranked)) |->
        SourceBlock(NthOf(MergedPositions(ranked), k),
                    ranked[NthOf(MergedPositions(ranked), k)])]

\* normalize_citation({"url": url, "title": title})
normalize_citation(url, title) ==
    [url |-> url, title |-> title, published_or_updated_date |-> "None",
     accessed_at |-> "None"]

\* citation_items
CitationItems(ranked) ==
    [k \in 1..Cardinality(MergedPositions(ranked)) |->
        normalize_citation(GetUrl(ranked[NthOf(MergedPositions(ranked), k)]),
                           GetTitle(ranked[NthOf(MergedPositions(ranked), k)]))]

\* every citation with a url kept, seen before or not
MutDedupeCitations(items) ==
    [k \in 1..Cardinality({i \in 1..Len(items) : StrTruthy(items[i].url)}) |->
        items[NthOf({i \in 1..Len(items) : StrTruthy(items[i].url)}, k)]]

\* dedupe_citations(items): the items whose url is truthy and not seen before
dedupe_citations(items) ==
    LET kept == {i \in 1..Len(items) :
                    /\ StrTruthy(items[i].url)
                    /\ \A j \in 1..(i - 1) : items[j].url # items[i].url}
    IN  [k \in 1..Cardinality(kept) |-> items[NthOf(kept, k)]]

\* merged_context without the fallback to the context of the state
MutMergedContext(ranked, context) == Join(MergedParts(ranked), <<"\n">>)

\* merged_context
MergedContext(ranked, context) ==
    IF MergedParts(ranked) # <<>> THEN Join(MergedParts(ranked), <<"\n">>)
    ELSE context

(* One execution of ContextMergeNode *)

Evidence(text, url, title, source) == Dict(UnifiedKeys, text, <<>>, url, title, source)

MergeKinds ==
    { Evidence(MailText, UrlA, "title", "web"),
      Evidence(SetupText, UrlA, "None", "web"),
      Evidence(<<" ", "m", "a", "i", "l", "\n">>, UrlB, "", "web"),
      Evidence(<<" ", " ">>, UrlB, "title", "web"),
      Evidence(<<>>, UrlA, "title", "web"),
      Evidence(MailText, "None", "None", "local") }

\* more ranked passages than the merge reads, the last one the only one
\* of its url
NineRanked ==
    [i \in 1..(MergeLimit + 1) |->
        IF i = MergeLimit + 1 THEN Evidence(MailText, UrlB, "title", "web")
        ELSE Evidence(<<LowerChars[i]>>, UrlA, "title", "web")]

\* eight passages as long as the windows of the reader
EightWindows ==
    [i \in 1..MergeLimit |-> Evidence(PageText(WindowSize), UrlA, "title", "web")]

\* state["context"]
ContextsIn == { <<>>, <<"l", "o", "c", "a", "l", " ", "c", "o", "n", "t", "e", "x", "t">> }

\* values of the context budget: a small one and the default
ContextCaps == {40, 6000}

MergerInit ==
    /\ mgRanked \in SeqsUpTo(MergeKinds, MaxRanked) \cup {NineRanked, EightWindows}
    /\ mgContextIn \in ContextsIn
    /\ mgMaxContext \in ContextCaps
    /\ mgPc = "ready"
    /\ mgContext = <<>>
    /\ mgCitations = <<>>

\* execute(state)
MergerRun ==
    /\ mgPc = "ready"
    /\ mgContext' = MergedContext(mgRanked, mgContextIn)
    /\ mgCitations' = dedupe_citations(CitationItems(mgRanked))
    /\ mgPc' = "merged"
    /\ UNCHANGED <<mgRanked, mgContextIn, mgMaxContext>>
    /\ UNCHANGED othersThanMerger

\* the merger is not run on its own in this specification
MergerIdle ==
    /\ mgRanked = <<>>
    /\ mgContextIn = <<>>
    /\ mgMaxContext = 6000
    /\ mgPc = "idle"
    /\ mgContext = <<>>
    /\ mgCitations = <<>>

(***************************************************************************)
(* The chat endpoint of main.py: POST / and DELETE / on the module-level   *)
(* chat_log.  The handlers are coroutines of one event loop, so the code   *)
(* between two awaits runs as one step; POST / awaits once, in             *)
(* call_ionos_chat.                                                        *)
(***************************************************************************)

\* how many POST / requests and DELETE / requests one behaviour holds
MaxPosts == 2
MaxClears == 1

Requests == 1..MaxPosts

\* EXCLUDED_CHATS
EXCLUDED_CHATS == {"image", "info"}

\* INITIAL_CHATLOG
INITIAL_CHATLOG ==
    << [content |-> "You are a helpful assistant", role |-> "system"],
       [content |-> "Hello!\n\nI'm a personal assistant chatbot. I will respond as best I can to any messages you send me.",
        role |-> "info"] >>

\* user_input.prompt of a request, and what the chat model may answer
Prompts == {"hi", "bye"}
Replies == {"yes", "no"}

\* history = [m for m in chat_log if m["role"] not in EXCLUDED_CHATS]
History(log) == SelectSeq(log, LAMBDA m : m.role \notin EXCLUDED_CHATS)

\* chat_log.append({"role": "user", "content": user_input.prompt})
UserMessage(log, prompt) == Append(log, [content |-> prompt, role |-> "user"])

\* chat_log.append({"role": "assistant", "content": assistant_response})
AssistantMessage(log, response) ==
    Append(log, [content |-> response, role |-> "assistant"])

ChatInit ==
    /\ chat_log = INITIAL_CHATLOG
    /\ chOwner = <<0, 0>>
    /\ chIndexed \in BOOLEAN
    /\ chPc = [r \in Requests |-> "new"]
    /\ chPrompt = [r \in Requests |-> "None"]
    /\ chHistory = [r \in Requests |-> <<>>]
    /\ chClears = 0

\* chat(): the user message is appended, then `if not chunk_embeddings`
\* raises HTTPException(500)
ChatIndexMissing ==
    \E r \in Requests, prompt \in Prompts :
        /\ chPc[r] = "new"
        /\ ~chIndexed
        /\ chat_log' = UserMessage(chat_log, prompt)
        /\ chOwner' = IF Len(chat_log') > Len(chat_log) THEN Append(chOwner, r)
                      ELSE chOwner
        /\ chPrompt' = [chPrompt EXCEPT ![r] = prompt]
        /\ chPc' = [chPc EXCEPT ![r] = "failed"]
        /\ UNCHANGED <<chIndexed, chHistory, chClears>>
        /\ UNCHANGED othersThanChat

\* chat(): the user message is appended, then get_embedding raises and the
\* handler raises HTTPException(500)
ChatEmbeddingFails ==
    \E r \in Requests, prompt \in Prompts :
        /\ chPc[r] = "new"
        /\ chIndexed
        /\ chat_log' = UserMessage(chat_log, prompt)
        /\ chOwner' = IF Len(chat_log') > Len(chat_log) THEN Append(chOwner, r)
                      ELSE chOwner
        /\ chPrompt' = [chPrompt EXCEPT ![r] = prompt]
        /\ chPc' = [chPc EXCEPT ![r] = "failed"]
        /\ UNCHANGED <<chIndexed, chHistory, chClears>>
        /\ UNCHANGED othersThanChat

\* chat() up to `await call_ionos_chat(prompt_text)`: the user message is
\* appended and the prompt is built from the log as it is now
ChatCallsModel ==
    \E r \in Requests, prompt \in Prompts :
        /\ chPc[r] = "new"
        /\ chIndexed
        /\ chat_log' = UserMessage(chat_log, prompt)
        /\ chOwner' = IF Len(chat_log') > Len(chat_log) THEN Append(chOwner, r)
                      ELSE chOwner
        /\ chPrompt' = [chPrompt EXCEPT ![r] = prompt]
        /\ chHistory' = [chHistory EXCEPT ![r] = History(chat_log')]
        /\ chPc' = [chPc EXCEPT ![r] = "awaiting"]
        /\ UNCHANGED <<chIndexed, chClears>>
        /\ UNCHANGED othersThanChat

\* chat() after the await when call_ionos_chat raised: HTTPException(500)
ChatModelFails ==
    \E r \in Requests :
        /\ chPc[r] = "awaiting"
        /\ chPc' = [chPc EXCEPT ![r] = "failed"]
        /\ UNCHANGED <<chat_log, chOwner, chIndexed, chPrompt, chHistory, chClears>>
        /\ UNCHANGED othersThanChat

\* chat() after the await: the response is appended to the chat_log of this
\* moment and the log is returned
ChatResponds ==
    \E r \in Requests, response \in Replies :
        /\ chPc[r] = "awaiting"
        /\ chat_log' = AssistantMessage(chat_log, response)
        /\ chOwner' = Append(chOwner, r)
        /\ chPc' = [chPc EXCEPT ![r] = "done"]
        /\ UNCHANGED <<chIndexed, chPrompt, chHistory, chClears>>
        /\ UNCHANGED othersThanChat

\* clear_chat_log(): chat_log = list(INITIAL_CHATLOG)
ClearChatLog ==
    /\ chClears < MaxClears
    /\ chat_log' = INITIAL_CHATLOG
    /\ chOwner' = <<0, 0>>
    /\ chClears' = chClears + 1
    /\ UNCHANGED <<chIndexed, chPc, chPrompt, chHistory>>
    /\ UNCHANGED othersThanChat

\* the endpoint is not served in this specification
ChatIdle ==
    /\ chat_log = INITIAL_CHATLOG
    /\ chOwner = <<0, 0>>
    /\ chIndexed = FALSE
    /\ chPc = [r \in Requests |-> "idle"]
    /\ chPrompt = [r \in Requests |-> "None"]
    /\ chHistory = [r \in Requests |-> <<>>]
    /\ chClears = 0

(***************************************************************************)
(* studio_call of studio_client.py: the messages are converted, a job is   *)
(* created and its status is polled.  The function is synchronous; one     *)
(* action is one request of it with what follows up to the next request.   *)
(***************************************************************************)

\* how many messages a call is given
MaxStudioMessages == 2

\* for _ in range(60)
MaxPolls == 60

\* m["type"] in ("human", "user", "ai", "assistant")
StudioTypes == {"human", "user", "ai", "assistant"}

\* "user" if m["type"] in ("human", "user") else "assistant"
StudioRole(type) == IF type \in {"human", "user"} THEN "user" ELSE "assistant"

\* msgs: the messages of the four types, each as role and content
StudioMessages(messages) ==
    LET kept == SelectSeq(messages, LAMBDA m : m.type \in StudioTypes)
    IN  [i \in 1..Len(kept) |->
            [content |-> kept[i].content, role |-> StudioRole(kept[i].type)]]

\* payload (temperature and max_tokens are fixed numbers)
StudioPayload(model_id, messages) ==
    [messages |-> <<StudioMessages(messages)>>, model_id |-> model_id]

\* a test that lets a canceled job be polled again
MutIsFailure(status) == status = "FAILED"

\* status.get("job_status") in ("FAILED", "CANCELED")
IsFailure(status) == status \in {"FAILED", "CANCELED"}

\* status.get("job_status") == "FINISHED"
IsFinished(status) == status = "FINISHED"

\* what studio_call ended with: nothing yet, a returned string or an exception
NoOutcome == [kind |-> "None", value |-> "None"]
Returned(value) == [kind |-> "return", value |-> value]
Raised(exception) == [kind |-> exception, value |-> "None"]

\* the "results" of a poll's JSON: kind tells whether the key is missing,
\* null or a list, items are the objects of the list with their keys
NoResults == [items |-> <<>>, kind |-> "missing"]
ResultsKinds ==
    { NoResults,
      [items |-> <<>>, kind |-> "null"],
      [items |-> <<>>, kind |-> "list"],
      [items |-> <<[keys |-> {}, result |-> "None"]>>, kind |-> "list"] }
    \cup { [items |-> <<[keys |-> {"result"}, result |-> r]>>, kind |-> "list"] :
             r \in {"answer", ""} }

\* return status["results"][0]["result"]: each subscript raises when what
\* it reads is not there
ResultOf(results) ==
    IF results.kind = "missing" THEN Raised("KeyError")
    ELSE IF results.kind = "null" THEN Raised("TypeError")
    ELSE IF results.items = <<>> THEN Raised("IndexError")
    ELSE IF "result" \notin results.items[1].keys THEN Raised("KeyError")
    ELSE Returned(results.items[1].result)

\* the JSON of a poll: job_status ("None" when the key is missing) and
\* results, which is read of a FINISHED report only
NoReport == [results |-> NoResults, job_status |-> "None", polled |-> FALSE]
Report(status, results) == [results |-> results, job_status |-> status, polled |-> TRUE]

\* what creating the job raises: c.post fails (a connection error, a
\* timeout), r.raise_for_status() on an error status, r.json() on a body
\* that is not JSON, ["job_id"] on an object without the key or on a JSON
\* value that is no object
CreateFailures ==
    {"TransportError", "HTTPStatusError", "JSONDecodeError", "KeyError", "TypeError"}

\* what a poll raises before its job_status is read: c.get fails,
\* g.raise_for_status() on an error status, g.json() on a body that is not
\* JSON, status.get on a JSON value that is no object
PollFailures ==
    {"TransportError", "HTTPStatusError", "JSONDecodeError", "AttributeError"}

StudioMessageKinds ==
    { [type |-> t, content |-> c] : c \in {"hi"}, t \in StudioTypes \cup {"system"} }
JobStatuses == {"FINISHED", "FAILED", "CANCELED", "RUNNING", "PENDING", "None"}

StudioInit ==
    /\ stMessages \in SeqsUpTo(StudioMessageKinds, MaxStudioMessages)
    /\ stPc = "start"
    /\ stPayload = StudioPayload("None", <<>>)
    /\ stPolls = 0
    /\ stReport = NoReport
    /\ stIgnored = FALSE
    /\ stOutcome = NoOutcome

\* the job is created: the POST is answered without an error status and
\* with a JSON object that holds job_id
StudioCreateJob ==
    /\ stPc = "start"
    /\ stPayload' = StudioPayload("model", stMessages)
    /\ stPc' = "polling"
    /\ UNCHANGED <<stMessages, stPolls, stReport, stIgnored, stOutcome>>
    /\ UNCHANGED othersThanStudio

\* the job is not created: the POST, r.raise_for_status() or
\* r.json()["job_id"] raises, and no poll is made
StudioCreateFails ==
    /\ stPc = "start"
    /\ stPayload' = StudioPayload("model", stMessages)
    /\ stPc' = "raised"
    /\ \E exception \in CreateFailures : stOutcome' = Raised(exception)
    /\ UNCHANGED <<stMessages, stPolls, stReport, stIgnored>>
    /\ UNCHANGED othersThanStudio

\* one turn of the loop whose GET, g.raise_for_status(), g.json() or
\* status.get raises
StudioPollFails ==
    /\ stPc = "polling"
    /\ stPolls < MaxPolls
    /\ stPolls' = stPolls + 1
    /\ stReport' = NoReport
    /\ stPc' = "raised"
    /\ \E exception \in PollFailures : stOutcome' = Raised(exception)
    /\ UNCHANGED <<stMessages, stPayload, stIgnored>>
    /\ UNCHANGED othersThanStudio

\* one turn of the loop that reports FINISHED: results[0]["result"] is
\* returned, or reading it raises
StudioPollFinished ==
    /\ stPc = "polling"
    /\ stPolls < MaxPolls
    /\ \E status \in JobStatuses, results \in ResultsKinds :
        /\ IsFinished(status)
        /\ stReport' = Report(status, results)
        /\ stOutcome' = ResultOf(results)
        /\ stPc' = IF ResultOf(results).kind = "return" THEN "returned" ELSE "raised"
    /\ stPolls' = stPolls + 1
    /\ UNCHANGED <<stMessages, stPayload, stIgnored>>
    /\ UNCHANGED othersThanStudio

\* one turn of the loop that reports a failed job: RuntimeError
StudioPollFailed ==
    /\ stPc = "polling"
    /\ stPolls < MaxPolls
    /\ \E status \in JobStatuses :
        /\ ~IsFinished(status)
        /\ IsFailure(status)
        /\ stReport' = Report(status, NoResults)
    /\ stPolls' = stPolls + 1
    /\ stPc' = "raised"
    /\ stOutcome' = Raised("RuntimeError")
    /\ UNCHANGED <<stMessages, stPayload, stIgnored>>
    /\ UNCHANGED othersThanStudio

\* one turn of the loop that reports neither: time.sleep(1) and the next turn
StudioPollPending ==
    /\ stPc = "polling"
    /\ stPolls < MaxPolls
    /\ \E status \in JobStatuses :
        /\ ~IsFinished(status)
        /\ ~IsFailure(status)
        /\ stReport' = Report(status, NoResults)
        /\ stIgnored' = (stIgnored \/ status \in {"FINISHED", "FAILED", "CANCELED"})
    /\ stPolls' = stPolls + 1
    /\ UNCHANGED <<stMessages, stPc, stPayload, stOutcome>>
    /\ UNCHANGED othersThanStudio

\* the loop ran out: raise TimeoutError("Job timeout")
StudioTimeout ==
    /\ stPc = "polling"
    /\ stPolls = MaxPolls
    /\ stPc' = "raised"
    /\ stOutcome' = Raised("TimeoutError")
    /\ UNCHANGED <<stMessages, stPayload, stPolls, stReport, stIgnored>>
    /\ UNCHANGED othersThanStudio

\* studio_call is not called in this specification
StudioIdle ==
    /\ stMessages = <<>>
    /\ stPc = "idle"
    /\ stPayload = StudioPayload("None", <<>>)
    /\ stPolls = 0
    /\ stReport = NoReport
    /\ stIgnored = FALSE
    /\ stOutcome = NoOutcome

---------------------------------------------------------------------------
(* Specifications *)

\* the ReActAgent handling one turn after another
Init == AgentInit /\ GateIdle /\ PlannerIdle /\ SearchIdle /\ ReaderIdle /\ RankerIdle /\ MergerIdle /\ ChatIdle /\ StudioIdle
Next ==
    \/ ProcessMessageWithRag
    \/ ProcessMessageExtendedWithRag
    \/ ReasoningExecute
    \/ ReasoningRaises
    \/ ContextPreparationExecute
    \/ ResponseDraftExecute
    \/ ResponseSufficiencyExecute
    \/ WebRetrieveSimpleExecute
    \/ WebRetrieveSimpleFails
    \/ ResponseGenerationExecute
    \/ ReturnAnswer
    \/ ReturnError
Spec == Init /\ [][Next]_vars

\* ResponseSufficiencyNode.execute applied to every input of GateInit
InitGate == GateInit /\ AgentIdle /\ PlannerIdle /\ SearchIdle /\ ReaderIdle /\ RankerIdle /\ MergerIdle /\ ChatIdle /\ StudioIdle
NextGate == GateExecute
SpecGate == InitGate /\ [][NextGate]_vars

\* SearchPlannerNode.execute applied to every input of PlannerInit
InitPlanner == PlannerInit /\ AgentIdle /\ GateIdle /\ SearchIdle /\ ReaderIdle /\ RankerIdle /\ MergerIdle /\ ChatIdle /\ StudioIdle
NextPlanner == PlannerRun
SpecPlanner == InitPlanner /\ [][NextPlanner]_vars

\* one execution of WebSearchNode for every input of SearchInit
InitSearch == SearchInit /\ AgentIdle /\ GateIdle /\ PlannerIdle /\ ReaderIdle /\ RankerIdle /\ MergerIdle /\ ChatIdle /\ StudioIdle
NextSearch ==
    \/ WebSearchBegin
    \/ TavilyRequest
    \/ TavilyRequestFails
    \/ TavilyLoopEnds
    \/ DdgRequest
    \/ DdgRequestFails
    \/ DdgSetupFails
    \/ DdgLoopEnds
    \/ WebSearchRetry
    \/ WebSearchReturn
SpecSearch == InitSearch /\ [][NextSearch]_vars

\* one call of WebReader.fetch_and_extract for every input of ReaderInit
InitReader == ReaderInit /\ GateIdle /\ AgentIdle /\ PlannerIdle /\ SearchIdle /\ RankerIdle /\ MergerIdle /\ ChatIdle /\ StudioIdle
NextReader ==
    \/ ReaderBegin
    \/ ReaderFetchFails
    \/ ReaderSkips
    \/ ReaderExtracts
    \/ ReaderReturn
SpecReader == InitReader /\ [][NextReader]_vars

\* one execution of EvidenceRankerNode for every input of RankerInit, then one on its output
InitRanker == RankerInit /\ GateIdle /\ AgentIdle /\ PlannerIdle /\ SearchIdle /\ ReaderIdle /\ MergerIdle /\ ChatIdle /\ StudioIdle
NextRanker ==
    \/ RankerRun
    \/ RankerRerun
SpecRanker == InitRanker /\ [][NextRanker]_vars

\* one execution of ContextMergeNode for every input of MergerInit
InitMerger == MergerInit /\ GateIdle /\ AgentIdle /\ PlannerIdle /\ SearchIdle /\ ReaderIdle /\ RankerIdle /\ ChatIdle /\ StudioIdle
NextMerger ==
    \/ MergerRun
SpecMerger == InitMerger /\ [][NextMerger]_vars

\* POST / and DELETE / requests served concurrently by one event loop
InitChat == ChatInit /\ GateIdle /\ AgentIdle /\ PlannerIdle /\ SearchIdle /\ ReaderIdle /\ RankerIdle /\ MergerIdle /\ StudioIdle
NextChat ==
    \/ ChatIndexMissing
    \/ ChatEmbeddingFails
    \/ ChatCallsModel
    \/ ChatModelFails
    \/ ChatResponds
    \/ ClearChatLog
SpecChat == InitChat /\ [][NextChat]_vars

\* one call of studio_call for every input of StudioInit
InitStudio == StudioInit /\ GateIdle /\ AgentIdle /\ PlannerIdle /\ SearchIdle /\ ReaderIdle /\ RankerIdle /\ MergerIdle /\ ChatIdle
NextStudio ==
    \/ StudioCreateJob
    \/ StudioCreateFails
    \/ StudioPollFails
    \/ StudioPollFinished
    \/ StudioPollFailed
    \/ StudioPollPending
    \/ StudioTimeout
SpecStudio == InitStudio /\ [][NextStudio]_vars

---------------------------------------------------------------------------
(* C1 *)

\* the claim's reading of the inputs
C1Hits == LocalHits(gateState.local_passages)
C1Trigger == TriggerHit(SufficiencyUserText(gateState.messages))

\* the decision table of the claim, for a threshold t
C1Table(t) ==
    IF C1Hits >= t /\ ~C1Trigger
    THEN [decision |-> "sufficient", deficits |-> {}]
    ELSE IF C1Trigger /\ C1Hits < t
    THEN [decision |-> "insufficient",
          deficits |-> {<<"reason", "trigger_and_low_coverage">>}]
    ELSE [decision |-> "insufficient",
          deficits |-> {<<"reason", "borderline">>}]

\* C1 as stated: the gate's output follows the decision table with the
\* threshold min_local_hits itself, for every threshold value.
C1_Original == gatePc = "done" => gateOut = C1Table(gateMinHits)

\* C1 as amended: the gate's output follows the decision table with the
\* threshold max(1, min_local_hits); the output is a function of the local
\* passages, the query and min_local_hits alone.
C1_GateDecisionTable ==
    gatePc = "done" =>
        gateOut = C1Table(IF gateMinHits > 1 THEN gateMinHits ELSE 1)

\* the gate has decided `sufficient` on a list that holds exactly as many
\* long passages as a threshold above 1 asks for, mixed with shorter ones
C1_Witness ==
    /\ gatePc = "done"
    /\ gateOut.decision = "sufficient"
    /\ gateMinHits > 1
    /\ C1Hits = gateMinHits
    /\ Len(gateState.local_passages) > C1Hits

---------------------------------------------------------------------------
(* C2, C3, C4, C5: the turn as the graphs run it *)

\* how many times node occurs in the trace
Count(node) == Cardinality({i \in 1..Len(trace) : trace[i] = node})

\* the nodes entered after the gate and before response_generation
\* (<<"unordered">> unless both ran once, the gate first)
BetweenGateAndGenerate ==
    IF Count("response_sufficiency") = 1 /\ Count("response_generation") = 1
    THEN LET g == CHOOSE i \in 1..Len(trace) : trace[i] = "response_sufficiency"
             e == CHOOSE i \in 1..Len(trace) : trace[i] = "response_generation"
         IN  IF g < e THEN Slice(trace, g + 1, e - 1) ELSE <<"unordered">>
    ELSE <<"unordered">>

\* the graph of an extended turn reached END after the gate said insufficient
C2Case == pc = "END" /\ flow = "extended" /\ DecisionOf(state) = "insufficient"

\* C2 as stated: when the gate decides insufficient, Plan, Search, Fetch,
\* Rank and Merge each run exactly once, in that order, after the gate and
\* before Generate.
C2_Original ==
    C2Case =>
        BetweenGateAndGenerate = <<"search_planner", "web_search", "web_read_extract",
                                   "evidence_ranker", "context_merge">>

\* C3: when the gate decides sufficient, Generate is the next stage to run,
\* no web stage runs in the turn, and the context and citations Generate
\* reads are those the state held when the gate ran.
C3_SufficientGoesToGenerate ==
    (flow = "extended" /\ DecisionOf(state) = "sufficient") =>
        /\ pc \in {"response_generation", "END", "returned"}
        /\ pc = "response_generation" =>
              trace = <<"reasoning", "context_preparation", "response_draft",
                        "response_sufficiency">>
        /\ pc \in {"END", "returned"} =>
              /\ trace = <<"reasoning", "context_preparation", "response_draft",
                           "response_sufficiency", "response_generation">>
              /\ genInput.context = atGate.context
              /\ genInput.citations = atGate.citations

\* a sufficient turn reached END, Generate having read a non-empty context
C3_Witness ==
    /\ pc = "END" /\ flow = "extended" /\ DecisionOf(state) = "sufficient"
    /\ genInput.context # <<>>
    /\ Count("response_generation") = 1

\* C4 as stated: every run that starts in Reasoning reaches Done (the graph
\* ends at END, not with an exception), no stage runs more than once and
\* Generate runs exactly once.
C4_Original ==
    pc = "returned" =>
        /\ answer.via # "exception"
        /\ \A i \in 1..Len(trace) : Count(trace[i]) = 1
        /\ Count("response_generation") = 1

\* C5 as stated: a failed external call in any stage never aborts the turn:
\* the run still goes through Generate to END and the caller gets an answer
\* string.
C5_Original ==
    (pc = "returned" /\ failed # {}) =>
        /\ answer.given
        /\ answer.via # "exception"
        /\ Count("response_generation") = 1

---------------------------------------------------------------------------
(* C6 *)

\* C6: the planner always returns at least one query variant and every
\* variant it returns is a non-empty string, whatever the messages are.
C6_PlannerReturnsVariants ==
    planPc = "done" =>
        /\ Len(planOut.queries) >= 1
        /\ \A i \in 1..Len(planOut.queries) : planOut.queries[i] # <<>>

\* the planner ran on a non-empty message list without usable text and
\* returned the generic variant alone
C6_Witness ==
    /\ planPc = "done"
    /\ planMessages # <<>>
    /\ LatestText(planMessages) = <<>>
    /\ planOut.queries = <<Overview>>

---------------------------------------------------------------------------
(* C7, C8, C9, C10: one execution of the search stage *)

\* the requests of pass p to the provider engine, in order
CallsOf(p, engine) ==
    SelectSeq(wsCalls, LAMBDA c : c.pass = p /\ c.engine = engine)

\* the number of results appended for the requests of calls
RECURSIVE ItemsOf(_)
ItemsOf(calls) == IF calls = <<>> THEN 0 ELSE Head(calls).items + ItemsOf(Tail(calls))

\* the queries of calls, in order
QueriesOf(calls) == [k \in 1..Len(calls) |-> calls[k].query]

\* the provider loop of engine was entered in pass p
Entered(p, engine) ==
    \E k \in 1..Len(wsPhases) : wsPhases[k].pass = p /\ wsPhases[k].engine = engine

\* C7 as stated: under an integer budget max_queries, every variant sent to
\* a provider is one of the first max_queries variants of the list, and at
\* most max_queries variants are sent.
C7_Original ==
    ("max_queries" \in wsState.budgets.keys /\ wsState.budgets.isInt) =>
        /\ \A k \in 1..Len(wsCalls) :
              /\ wsCalls[k].position <= wsState.budgets.max_queries
              /\ wsCalls[k].position <= Len(wsState.queries)
              /\ wsCalls[k].query = wsState.queries[wsCalls[k].position]
        /\ Cardinality({wsCalls[k].position : k \in 1..Len(wsCalls)})
               <= (IF wsState.budgets.max_queries > 0
                   THEN wsState.budgets.max_queries ELSE 0)

\* C8 as stated: when a request to a provider fails, every variant within
\* the budget is still sent to that provider in that pass, and the items
\* obtained in the last pass are all returned; for Tavily and DuckDuckGo alike.
C8_Original ==
    wsPc = "done" =>
        /\ \A k \in 1..Len(wsCalls) :
              wsCalls[k].raised =>
                  QueriesOf(CallsOf(wsCalls[k].pass, wsCalls[k].engine)) = Issued
        /\ Len(wsOut) = ItemsOf(CallsOf(wsPass, "tavily"))
                        + ItemsOf(CallsOf(wsPass, "duckduckgo"))

\* C9 as stated: in every pass DuckDuckGo is queried exactly when Tavily
\* produced no result (not configured, or nothing found, or every request
\* failed), and then with the same first max_queries variants; every result
\* returned is tagged with the engine that produced it, and no Tavily result
\* follows a DuckDuckGo result.
C9_Original ==
    wsPc = "done" =>
        /\ \A p \in 1..Len(wsPasses) :
              /\ Entered(p, "duckduckgo") <=> ItemsOf(CallsOf(p, "tavily")) = 0
              /\ Entered(p, "duckduckgo") =>
                    QueriesOf(CallsOf(p, "duckduckgo")) = Issued
        /\ \A i \in 1..Len(wsOut) :
              wsOut[i].engine = IF ItemsOf(CallsOf(wsPass, "tavily")) > 0
                                THEN "tavily" ELSE "duckduckgo"
        /\ \A i, j \in 1..Len(wsOut) :
              i < j => ~(wsOut[i].engine = "duckduckgo" /\ wsOut[j].engine = "tavily")

\* C10: the search stage makes a second pass exactly when the first pass
\* carried a true recent filter and returned no result; it never makes more
\* than two passes, and the second pass carries no recent filter.
C10_RetryOnceWithoutRecent ==
    /\ wsPass <= 2
    /\ Len(wsPasses) <= wsPass
    /\ wsPass = 2 =>
          /\ "recent" \notin wsFilters.keys
          /\ wsPasses # <<>>
          /\ RecentOf(wsPasses[1].filters)
          /\ wsPasses[1].results = <<>>
    /\ wsPc = "done" =>
          (Len(wsPasses) = 2
              <=> (RecentOf(wsPasses[1].filters) /\ wsPasses[1].results = <<>>))

\* a recency cue in the queries alone made the first pass carry the recent
\* filter; it found nothing, and the second pass returned results
C10_Witness ==
    /\ wsPc = "done"
    /\ wsState.search_filters.keys = {}
    /\ Len(wsPasses) = 2
    /\ RecentOf(wsPasses[1].filters)
    /\ wsPasses[1].results = <<>>
    /\ ~RecentOf(wsPasses[2].filters)
    /\ wsOut # <<>>

---------------------------------------------------------------------------
(* C11 *)

\* C11 as stated: when the query variants hold a recency cue, every request
\* of the first pass carries the recent filter, and no request of the retry
\* pass carries it.
C11_Original ==
    \A k \in 1..Len(wsCalls) :
        /\ (wsCalls[k].pass = 1 /\ HasRecencyCue(wsState.queries)) =>
              "recent" \in wsCalls[k].payload
        /\ wsCalls[k].pass = 2 => "recent" \notin wsCalls[k].payload

---------------------------------------------------------------------------
(* C12 *)

\* the number of URLs and of passages a budget of max_pages allows
C12Cap == IF MaxPagesOf(wrBudget) > 0 THEN MaxPagesOf(wrBudget) ELSE 0

\* C12 as stated: only URLs among the first max_pages of the list are
\* requested, and at most max_pages passages are returned.
C12_Original ==
    /\ \A i \in 1..Len(wrFetched) : wrFetched[i] <= C12Cap
    /\ Len(wrResults) <= C12Cap

---------------------------------------------------------------------------
(* C13 *)

\* a URL that gives passages: the fetch succeeds, the response is HTML and
\* some text is extracted
C13Good(page) == ~page.raises /\ IsHtml(page.ctype) /\ page.text # <<>>

\* the passages of the URLs at positions k.. of urls[:max_pages], every URL
\* that is not good left out, when results already holds acc
RECURSIVE C13Passages(_, _)
C13Passages(k, acc) ==
    IF k > Len(ReaderSlice) THEN acc
    ELSE C13Passages(k + 1,
            IF C13Good(wrPages[ReaderSlice[k]])
            THEN acc \o PassagesOf(wrPages[ReaderSlice[k]], Len(acc),
                                   MaxPagesOf(wrBudget))
            ELSE acc)

\* C13: a URL whose fetch fails, whose response is not HTML or whose text
\* is empty gives no passage and does not end the call: the call returns
\* after requesting every URL of urls[:max_pages] in order, and returns
\* the passages of the other URLs as if the bad ones had given nothing.
C13_BadUrlSkippedRestProcessed ==
    /\ \A i \in 1..Len(wrResults) :
          \A j \in 1..Len(wrPages) :
              wrPages[j].url = wrResults[i].url => C13Good(wrPages[j])
    /\ wrPc = "loop" =>
          wrFetched = [i \in 1..(wrIdx - 1) |-> ReaderSlice[i]]
    /\ (wrPc = "done" /\ wrPages # <<>>) =>
          /\ wrFetched = ReaderSlice
          /\ wrResults = C13Passages(1, <<>>)

\* the first URL failed and the second one, fetched after it, gave passages
C13_Witness ==
    /\ wrPc = "done"
    /\ Len(wrFetched) = 2
    /\ wrPages[wrFetched[1]].raises
    /\ C13Good(wrPages[wrFetched[2]])
    /\ wrResults # <<>>
    /\ wrResults[1].url = wrPages[wrFetched[2]].url

---------------------------------------------------------------------------
(* C14 *)

\* C14: every returned passage is the slice of its page's extracted text
\* that starts at the offset the loop was at, 200 to 800 characters long,
\* and two passages that follow each other from one fetched page start 600
\* characters apart, the second 200 characters before the end of the first.
C14_WindowsAreSlices ==
    /\ Len(wrStarts) = Len(wrResults)
    /\ \A i \in 1..Len(wrResults) :
          LET page == wrPages[wrStarts[i][1]]
              start == wrStarts[i][2]
              passage == wrResults[i].passage
          IN  /\ wrResults[i].url = page.url
              /\ Len(passage) >= 200
              /\ Len(passage) <= 800
              /\ start >= 0
              /\ start + Len(passage) <= Len(page.text)
              /\ \A c \in 1..Len(passage) : passage[c] = page.text[start + c]
    /\ \A i \in 1..(Len(wrResults) - 1) :
          wrStarts[i][1] = wrStarts[i + 1][1] =>
              /\ wrStarts[i + 1][2] = wrStarts[i][2] + 600
              /\ wrStarts[i + 1][2]
                    = wrStarts[i][2] + Len(wrResults[i].passage) - 200

\* a page gave three windows: two full ones and a last shorter one
C14_Witness ==
    /\ wrPc = "done"
    /\ Len(wrResults) >= 3
    /\ wrStarts[1][1] = wrStarts[2][1]
    /\ wrStarts[2][1] = wrStarts[3][1]
    /\ Len(wrResults[2].passage) = 800
    /\ Len(wrResults[3].passage) < 800

---------------------------------------------------------------------------
(* C15 *)

\* the key of the claim: the url and the first 80 characters of the text
C15Key(item) == <<item.url, SubSeq(item.text, 1, IF Len(item.text) < 80
                                                  THEN Len(item.text) ELSE 80)>>

\* the input items in input order: local items, then web items
C15Input == Unified(rrLocal, rrWeb)

\* C15: no two items of the ranker's output have the same key (url, first
\* 80 characters of text), and every output item is the first input item,
\* in input order with local items before web items, that has its key.
C15_OutputKeysDistinct ==
    rrPc \in {"ranked", "reranked"} =>
        /\ \A i, j \in 1..Len(rrOut) :
              i # j => C15Key(rrOut[i]) # C15Key(rrOut[j])
        /\ \A i \in 1..Len(rrOut) :
              \E k \in 1..Len(C15Input) :
                  /\ C15Input[k] = rrOut[i]
                  /\ \A h \in 1..(k - 1) : C15Key(C15Input[h]) # C15Key(rrOut[i])

\* a local and a web item differ after their common first 80 characters:
\* the local one is in the output, the web one is not
C15_Witness ==
    /\ rrPc = "ranked"
    /\ \E i \in 1..Len(rrLocal), j \in 1..Len(rrWeb) :
          /\ C15Key(UnifyLocal(rrLocal[i])) = C15Key(UnifyWeb(rrWeb[j]))
          /\ UnifyLocal(rrLocal[i]).text # UnifyWeb(rrWeb[j]).text
          /\ \E k \in 1..Len(rrOut) : rrOut[k] = UnifyLocal(rrLocal[i])
          /\ \A k \in 1..Len(rrOut) : rrOut[k] # UnifyWeb(rrWeb[j])

---------------------------------------------------------------------------
(* C16 *)

\* the query tokens and how many of them the text of an item holds
C16QueryTokens == KeywordTokens(LatestText(rrMessages))
C16Hits(item) == Cardinality({t \in C16QueryTokens : t \in KeywordTokens(item.text)})

\* the input items no earlier input item has the key of
C16Deduped ==
    {C15Input[k] : k \in {n \in 1..Len(C15Input) :
        \A h \in 1..(n - 1) : C15Key(C15Input[h]) # C15Key(C15Input[n])}}

\* the first position of an output item in the input
C16Position(item) ==
    CHOOSE k \in 1..Len(C15Input) :
        /\ C15Input[k] = item
        /\ \A h \in 1..(k - 1) : C15Input[h] # item

\* C16: the ranker returns at most 10 items in non-increasing order of the
\* token-overlap score (query tokens found in the text over the number of
\* query tokens; all scores are 0 when the query has no token, so the counts
\* are compared), items of equal score in input order, and no deduplicated
\* item that is left out scores higher than a returned one.
C16_TopTenByScore ==
    rrPc \in {"ranked", "reranked"} =>
        /\ Len(rrOut) <= 10
        /\ \A i, j \in 1..Len(rrOut) :
              i < j =>
                  /\ C16Hits(rrOut[i]) >= C16Hits(rrOut[j])
                  /\ C16Hits(rrOut[i]) = C16Hits(rrOut[j]) =>
                        C16Position(rrOut[i]) < C16Position(rrOut[j])
        /\ \A d \in C16Deduped :
              (\A i \in 1..Len(rrOut) : rrOut[i] # d) =>
                  \A i \in 1..Len(rrOut) : C16Hits(d) <= C16Hits(rrOut[i])

\* twelve distinct passages came in, the two with query tokens last: ten
\* are returned, those two first
C16_Witness ==
    /\ rrPc = "ranked"
    /\ rrLocal = <<>>
    /\ Len(rrWeb) = 12
    /\ Cardinality(C16QueryTokens) = 2
    /\ Len(rrOut) = 10
    /\ rrOut[1] = UnifyWeb(rrWeb[12])
    /\ rrOut[2] = UnifyWeb(rrWeb[11])
    /\ rrOut[3] = UnifyWeb(rrWeb[1])
    /\ C16Hits(rrOut[1]) = 2
    /\ C16Hits(rrOut[2]) = 1

---------------------------------------------------------------------------
(* C17 *)

\* C17 as stated: the ranker run on its own output, handed over as
\* local_passages with the same messages, returns that output again.
C17_Original ==
    (rrPc = "reranked" /\ rrFeed = "local_passages") => rrOut2 = rrOut

---------------------------------------------------------------------------
(* C18 *)

\* C18 as stated: the ranker returns at most Config.MAX_WEB_PASSAGES items.
C18_Original ==
    rrPc \in {"ranked", "reranked"} => Len(rrOut) <= rrMaxWebPassages

---------------------------------------------------------------------------
(* C19 *)

\* C19 as stated: the context the merger returns is never longer than the
\* context budget.
C19_Original == mgPc = "merged" => Len(mgContext) <= mgMaxContext

---------------------------------------------------------------------------
(* C20 *)

\* the merged evidence items: those of the first 8 with a non-blank text
C20Merged ==
    SelectSeq(SubSeq(mgRanked, 1, IF Len(mgRanked) < 8 THEN Len(mgRanked) ELSE 8),
              LAMBDA p : Strip(p.text) # <<>>)

\* the position of the first merged item with this url
C20FirstSeen(url) ==
    CHOOSE k \in 1..Len(C20Merged) :
        /\ C20Merged[k].url = url
        /\ \A h \in 1..(k - 1) : C20Merged[h].url # url

\* C20: no two citations of the merger's output have the same URL, every
\* citation has the URL of a merged evidence item, and the citations are in
\* the order in which their URLs first appear among the merged items.
C20_CitationsUniqueInOrder ==
    mgPc = "merged" =>
        /\ \A i, j \in 1..Len(mgCitations) :
              i # j => mgCitations[i].url # mgCitations[j].url
        /\ \A i \in 1..Len(mgCitations) :
              \E k \in 1..Len(C20Merged) : C20Merged[k].url = mgCitations[i].url
        /\ \A i, j \in 1..Len(mgCitations) :
              i < j => C20FirstSeen(mgCitations[i].url) < C20FirstSeen(mgCitations[j].url)

\* three merged items, the first and the third of one URL, gave two
\* citations in the order of first appearance
C20_Witness ==
    /\ mgPc = "merged"
    /\ Len(C20Merged) = 3
    /\ C20Merged[1].url = C20Merged[3].url
    /\ C20Merged[2].url = UrlB
    /\ Len(mgCitations) = 2
    /\ mgCitations[1].url = UrlA
    /\ mgCitations[2].url = UrlB

---------------------------------------------------------------------------
(* C21 *)

\* C21: when no item among the first 8 ranked passages has a text that is
\* non-empty once stripped (an empty ranked list included), the merger
\* returns the context of the incoming state unchanged and no citation.
C21_FallbackToUpstreamContext ==
    (/\ mgPc = "merged"
     /\ \A i \in 1..Len(mgRanked) : i <= 8 => Strip(mgRanked[i].text) = <<>>) =>
        /\ mgContext = mgContextIn
        /\ mgCitations = <<>>

\* ranked passages with a URL and an empty text came in with a non-empty
\* upstream context, which is returned
C21_Witness ==
    /\ mgPc = "merged"
    /\ Len(mgRanked) >= 2
    /\ \A i \in 1..Len(mgRanked) : mgRanked[i].url # "None"
    /\ \E i \in 1..Len(mgRanked) : mgRanked[i].text = <<>>
    /\ \A i \in 1..Len(mgRanked) : Strip(mgRanked[i].text) = <<>>
    /\ mgContextIn # <<>>
    /\ mgContext = mgContextIn
    /\ mgCitations = <<>>

---------------------------------------------------------------------------
(* C22 *)

\* the assistant messages of the conversation of the running turn
C22Assistant == SelectSeq(state.messages, LAMBDA m : m.type = "ai")

\* C22 as stated: a turn appends exactly one assistant message, and only
\* the generation node appends it (none is there before that node has run,
\* the draft node included); when the language-model call of the node
\* raised, or gave empty content, the message is the fixed apology, and the
\* node raises nothing.
C22_Original ==
    /\ (pc \notin {"idle", "returned"} /\ Count("response_generation") = 0) =>
          C22Assistant = <<>>
    /\ Count("response_generation") = 1 =>
          /\ Len(C22Assistant) = 1
          /\ C22Assistant[1].content # <<>>
          /\ Strip(C22Assistant[1].content) = C22Assistant[1].content
          /\ "response_generation" \in failed =>
                C22Assistant[1].content = GenerationApology
    /\ pc = "returned" => Len(C22Assistant) = 1

---------------------------------------------------------------------------
(* C23 *)

\* the state a turn with the inputs of the running turn is started with
C23Fresh ==
    IF flow = "legacy"
    THEN LegacyInitialState(state.messages[1].content, state.rag_chunks,
                            state.current_url)
    ELSE ExtendedInitialState(state.messages[1].content, state.rag_chunks,
                              state.current_url)

\* C23: at every point of every turn of one agent, the state of the turn is
\* what the inputs of that turn and the answers of the collaborators make
\* it, whatever the turn before left: it starts as the freshly built initial
\* state; local passages are those built from the turn's chunks and URL;
\* the decision is absent until the gate has run and is then the gate's
\* verdict on this turn's message and passages; citations are absent until
\* a node of this turn sets them and context is empty until one does, and
\* both are then what that node made from this turn's chunks or from the
\* retriever's documents; there are no ranked passages.
C23_TurnStateFresh ==
    pc # "idle" =>
        /\ trace = <<>> => state = C23Fresh
        /\ state.local_passages = C23Fresh.local_passages
        /\ "ranked_passages" \notin state.keys
        /\ IF Count("response_sufficiency") = 0
           THEN "decision" \notin state.keys /\ "deficits" \notin state.keys
           ELSE /\ state.decision
                     = SufficiencyExecute(C23Fresh.messages, C23Fresh.local_passages,
                                          cfgMinHits).decision
                /\ state.deficits
                     = SufficiencyExecute(C23Fresh.messages, C23Fresh.local_passages,
                                          cfgMinHits).deficits
        /\ IF Count("web_retrieve_simple") = 1
           THEN \E docs \in RetrieverDocLists :
                    /\ state.context = WebRetrieveResult(docs).context
                    /\ state.citations = WebRetrieveResult(docs).citations
           ELSE /\ IF Count("context_preparation") = 0
                   THEN state.context = <<>>
                   ELSE \E relevant \in BOOLEAN :
                            state.context = PreparedContext(state.rag_chunks,
                                                            state.current_url, relevant)
                /\ IF Count("response_draft") = 0
                   THEN "citations" \notin state.keys
                   ELSE state.citations = <<>>

\* the turn before ended with the decision "insufficient" and with
\* citations; the running turn has passed the gate as "sufficient" and has
\* no citation
C23_Witness ==
    /\ earlier.decision = "insufficient"
    /\ earlier.cited
    /\ flow = "extended"
    /\ pc = "response_generation"
    /\ state.decision = "sufficient"
    /\ state.citations = <<>>
    /\ state.context # <<>>

---------------------------------------------------------------------------
(* C24 *)

\* the normalized query of the planner's run, and its site hint
C24Query == normalize(LatestText(planMessages))
C24Hint == SiteHint(Lower(C24Query))

\* s ends with t
C24EndsWith(s, t) ==
    Len(t) <= Len(s) /\ SubSeq(s, Len(s) - Len(t) + 1, Len(s)) = t

\* C24: when the query holds a hint site:<domain>, every variant the
\* planner returns ends with " site:<domain>" and search_filters holds
\* include_domains = [<domain>] and nothing else; when it holds no hint,
\* search_filters is empty and no variant holds a site: term.
C24_SiteHintAppliedToAll ==
    planPc = "done" =>
        IF Truthy(C24Hint)
        THEN /\ \A i \in 1..Len(planOut.queries) :
                    C24EndsWith(planOut.queries[i],
                                <<" ", "s", "i", "t", "e", ":">> \o C24Hint.text)
             /\ planOut.search_filters.keys = {"include_domains"}
             /\ planOut.search_filters.include_domains = <<C24Hint.text>>
        ELSE /\ planOut.search_filters.keys = {}
             /\ \A i \in 1..Len(planOut.queries) :
                    SiteMatches(Lower(planOut.queries[i])) = {}

\* a query with a hint gave two variants, both with the suffix
C24_Witness ==
    /\ planPc = "done"
    /\ C24Hint = Str(<<"a", "c", "m", "e", ".", "c", "o", "m">>)
    /\ Len(planOut.queries) = 2
    /\ planOut.search_filters.include_domains
          = <<(<<"a", "c", "m", "e", ".", "c", "o", "m">>)>>

---------------------------------------------------------------------------
(* C25 *)

\* C25 as stated: the tokens of the keyword variant do not hold the domain
\* of the hint, and site:<domain> occurs exactly once in every variant.
C25_Original ==
    (planPc = "done" /\ Truthy(C24Hint)) =>
        /\ \A i \in 1..Len(Tokens(Lower(C24Query))) :
              Tokens(Lower(C24Query))[i] # C24Hint.text
        /\ \A i \in 1..Len(planOut.queries) :
              Cardinality({k \in 1..Len(planOut.queries[i]) :
                             MatchAt(Lower(planOut.queries[i]),
                                     SitePrefix \o C24Hint.text, k)}) = 1

---------------------------------------------------------------------------
(* C26 *)

\* the three candidates in their order: normalized original, keyword join,
\* entity phrase (empty when an anchor is missing)
C26Candidates(query, tokens) ==
    << query,
       Strip(Join(SubSeq(tokens, 1, IF Len(tokens) < 8 THEN Len(tokens) ELSE 8),
                  <<" ">>)),
       IF /\ \E i \in 1..Len(tokens) : Contains(tokens[i], Ionos)
          /\ \E i \in 1..Len(tokens) : Contains(tokens[i], Wpmarmite)
       THEN Wpmarmite \o <<" ">> \o Ionos \o <<" ", "a", "r", "t", "i", "c", "l", "e">>
       ELSE <<>> >>

\* the positions of the candidates that are non-empty and equal to no
\* earlier candidate
C26Kept(candidates) ==
    {i \in 1..3 : /\ candidates[i] # <<>>
                  /\ \A j \in 1..(i - 1) : candidates[j] # candidates[i]}

\* the variants the claim describes: the kept candidates in order, each with
\* the site suffix when the query has a hint; the generic variant alone when
\* no candidate is kept
C26Expected ==
    LET query == C24Query
        hint == SiteHint(Lower(query))
        candidates == C26Candidates(query, Tokens(Lower(query)))
        kept == C26Kept(candidates)
        suffix == IF Truthy(hint) THEN <<" ">> \o SitePrefix \o hint.text ELSE <<>>
    IN  IF kept = {} THEN <<Overview>>
        ELSE [k \in 1..Cardinality(kept) |-> candidates[NthOf(kept, k)] \o suffix]

\* C26: the planner returns, in this order, the normalized original, the
\* join of the first 8 non-stopword tokens and, when both anchors are among
\* the tokens, the entity phrase, leaving out empty ones and any one equal
\* to an earlier one (each with the site suffix when the query has a hint;
\* the generic variant alone when none is left): at most 3 variants, no two
\* equal.
C26_VariantsOrderedDistinct ==
    planPc = "done" =>
        /\ Len(planOut.queries) <= 3
        /\ \A i, j \in 1..Len(planOut.queries) :
              i # j => planOut.queries[i] # planOut.queries[j]
        /\ planOut.queries = C26Expected

\* the keyword join equals the normalized original and is left out; the
\* entity phrase follows the original
C26_Witness ==
    /\ planPc = "done"
    /\ Len(planOut.queries) = 2
    /\ LET query == C24Query
           candidates == C26Candidates(query, Tokens(Lower(query)))
       IN  /\ candidates[1] # <<>>
           /\ candidates[2] = candidates[1]
           /\ candidates[3] # <<>>
           /\ planOut.queries = <<candidates[1], candidates[3]>>

----------------------------------------------------------------------------
(* C27 *)

\* C27 as stated: in an insufficient turn the context Generate reads still
\* holds the context the state had at the gate, and equals it when the web
\* retriever failed.
C27_Original ==
    (/\ flow = "extended" /\ DecisionOf(state) = "insufficient"
     /\ pc \in {"END", "returned"} /\ Count("response_generation") = 1) =>
        /\ Contains(genInput.context, atGate.context)
        /\ "web_retrieve_simple" \in failed => genInput.context = atGate.context

----------------------------------------------------------------------------
(* C28 *)

\* the positions in results of the passages of the page at position p
C28Windows(p) == {i \in 1..Len(wrStarts) : wrStarts[i][1] = p}

\* len(results) when the windowing loop of the page at position p was left
C28CountAfter(p) == Cardinality({i \in 1..Len(wrStarts) : wrStarts[i][1] <= p})

\* the page at position p went through the windowing loop
C28Windowed(p) ==
    /\ \E k \in 1..Len(wrFetched) : wrFetched[k] = p
    /\ ~wrPages[p].raises
    /\ IsHtml(wrPages[p].ctype)
    /\ wrPages[p].text # <<>>

\* C28: the windowing loop of a page ends (it takes at most one turn per 600
\* characters of the text); a text shorter than 200 characters gives no passage; a text of 200
\* characters or more, when the loop was left with the budget not used up,
\* has every character in at least one returned passage of its page.
C28_WindowsCoverText ==
    \A p \in 1..Len(wrPages) :
        C28Windowed(p) =>
            LET text == wrPages[p].text
                windows == C28Windows(p)
            IN  /\ Cardinality(windows) <= ((Len(text) - 1) \div 600) + 1
                /\ Len(text) < 200 => windows = {}
                /\ (Len(text) >= 200 /\ C28CountAfter(p) < MaxPagesOf(wrBudget)) =>
                      /\ windows # {}
                      /\ \A i \in windows :
                            wrResults[i].passage
                                = SubSeq(text, wrStarts[i][2] + 1,
                                         wrStarts[i][2] + Len(wrResults[i].passage))
                      /\ \A c \in 1..Len(text) :
                            \E i \in windows :
                                /\ wrStarts[i][2] < c
                                /\ c <= wrStarts[i][2] + Len(wrResults[i].passage)

\* the call returned after a text of exactly 200 characters and a text of
\* three windows were windowed with budget left
C28_Witness ==
    /\ wrPc = "done"
    /\ Len(wrPages) = 2
    /\ C28Windowed(1) /\ C28Windowed(2)
    /\ Len(wrPages[1].text) = 200
    /\ Cardinality(C28Windows(1)) = 1
    /\ Cardinality(C28Windows(2)) = 3
    /\ Len(wrResults) < MaxPagesOf(wrBudget)

----------------------------------------------------------------------------
(* C29 *)

\* every POST / request was answered, with the log or with an error
C29AllCompleted == \A r \in Requests : chPc[r] \in {"done", "failed"}

\* C29 as stated: once all requests have completed, the log begins with the
\* two initial messages and every user message is directly followed by the
\* assistant message of the same request.
C29_Original ==
    C29AllCompleted =>
        /\ Len(chat_log) >= 2
        /\ SubSeq(chat_log, 1, 2) = INITIAL_CHATLOG
        /\ \A i \in 1..Len(chat_log) :
              chat_log[i].role = "user" =>
                  /\ i < Len(chat_log)
                  /\ chat_log[i + 1].role = "assistant"
                  /\ chOwner[i + 1] = chOwner[i]


----------------------------------------------------------------------------
(* C30 *)

\* studio_call runs to its end: every request of it is answered or fails
\* (the client has a timeout of 60 seconds) and time.sleep(1) returns
SpecStudioFair == InitStudio /\ [][NextStudio]_vars /\ WF_vars(NextStudio)

\* the last poll reported FINISHED, FAILED or CANCELED
C30Terminal == stReport.polled /\ stReport.job_status \in {"FINISHED", "FAILED", "CANCELED"}

\* the poll count, and the outcomes for FAILED, CANCELED and the timeout
C30Polls ==
    /\ stPolls <= 60
    /\ ~stIgnored
    /\ stPc = "polling" => (stPolls = 0 \/ stReport.polled)
    /\ (stReport.polled /\ stReport.job_status \in {"FAILED", "CANCELED"}) =>
          /\ stPc = "raised"
          /\ stOutcome = Raised("RuntimeError")
    /\ stPc = "returned" => (stReport.polled /\ stReport.job_status = "FINISHED")
    /\ stOutcome.kind = "RuntimeError" =>
          (stReport.polled /\ stReport.job_status \in {"FAILED", "CANCELED"})
    /\ stOutcome.kind = "TimeoutError" =>
          /\ stPolls = 60
          /\ stReport.polled
          /\ ~C30Terminal
    /\ (stPc = "raised" /\ stPolls = 60 /\ stReport.polled /\ ~C30Terminal) =>
          stOutcome = Raised("TimeoutError")

\* the report holds a first result: "results" is a non-empty list whose
\* first object has the key "result"
C30HasResult ==
    /\ stReport.results.kind = "list"
    /\ stReport.results.items # <<>>
    /\ "result" \in stReport.results.items[1].keys

\* C30 as stated: a call of studio_call ends; it polls at most 60 times,
\* returns the result at the first poll that reports FINISHED, raises an
\* error at the first poll that reports FAILED or CANCELED, and raises a
\* timeout error after 60 polls that report none of these.
C30_Original ==
    /\ [](/\ C30Polls
          /\ (stReport.polled /\ stReport.job_status = "FINISHED") =>
                (stPc = "returned" /\ stOutcome.kind = "return"))
    /\ <>(stPc \in {"returned", "raised"})

\* C30 as amended: a call of studio_call ends; it polls at most 60 times and
\* passes over no poll that reports FINISHED, FAILED or CANCELED; at the
\* poll that reports FINISHED it returns the first result when the report
\* holds one and raises KeyError, IndexError or TypeError when it holds
\* none; it raises RuntimeError at the poll that reports FAILED or CANCELED
\* and TimeoutError after 60 polls that report none of these.
C30_PollsBoundedAndEnds ==
    /\ [](/\ C30Polls
          /\ (stReport.polled /\ stReport.job_status = "FINISHED") =>
                IF C30HasResult
                THEN /\ stPc = "returned"
                     /\ stOutcome = Returned(stReport.results.items[1].result)
                ELSE /\ stPc = "raised"
                     /\ stOutcome.kind \in {"KeyError", "IndexError", "TypeError"})
    /\ <>(stPc \in {"returned", "raised"})

\* the 60th poll reported FINISHED with an empty list of results and the
\* call raised IndexError
C30_Witness ==
    /\ stPc = "raised"
    /\ stPolls = 60
    /\ stReport.job_status = "FINISHED"
    /\ stReport.results = [items |-> <<>>, kind |-> "list"]
    /\ stOutcome = Raised("IndexError")
===========================================================================
